---- MODULE Spec2Model ----
(***************************************************************************)
(* A model of the THOR chatbot: the clone manager (thor_clone_manager.py), *)
(* the provider cascade and the response pipeline (ai_engine.py with       *)
(* thor_ai.py and anthropic_ai.py) and the chat and permission endpoints   *)
(* (routes.py).  Texts are TLA+ strings handled character by character.    *)
(***************************************************************************)
EXTENDS Integers, Sequences, FiniteSets, TLC

VARIABLES
    clones,      \* committed rows of the thor_clone table, in id order
    sess,        \* TRUE while the db session holds an uncommitted "update all is_active=False"
    files,       \* names of the clones that have a model JSON file in models_dir
    cm_last,     \* the last clone-manager call: [op, name, ok, db_failed]
    thor_ai,     \* AIEngine.thor_ai is set (OPENAI_API_KEY was given)
    anthropic_ai,\* AIEngine.anthropic_ai is set (ANTHROPIC_API_KEY was given)
    cap_last,    \* the last /api/thor or /api/models request and its answer
    req_prompt,  \* the prompt the response pipeline is applied to
    req_settings,\* the settings argument of that call
    resp_last,   \* the last call of the response pipeline and its value
    nusers,      \* the number of rows of the user table; the ids are 1..nusers
    session_user,\* session['user_id'] of the browser, 0 when nobody is logged in
    user_settings,\* the user_settings row of each user id
    conversations,\* the rows of the conversation table, in id order
    messages,    \* the rows of the message table, in timestamp order
    chat_last,   \* the last request to these endpoints and its answer
    model_cache, \* the rows of the model_cache table, in id order
    assigned,    \* history: the names that creates of a naming sequence have given
    reqs,        \* the requests in progress, each in a database session of its own
    settings_table, \* the rows of the user_settings table as concurrent requests insert them
    available_models, \* ModelIntegrator.available_models: model id -> info dict
    lists,       \* the list objects the info dicts refer to: reference -> items
    mi_last      \* the last call of the integrator and its value

cloneVars == <<clones, sess, files, cm_last>>
cascadeVars == <<thor_ai, anthropic_ai, cap_last>>
responseVars == <<req_prompt, req_settings, resp_last>>
chatVars == <<nusers, session_user, user_settings, conversations, messages, chat_last>>
integratorVars == <<available_models, lists, mi_last>>
vars == <<clones, sess, files, cm_last, thor_ai, anthropic_ai, cap_last,
          req_prompt, req_settings, resp_last,
          nusers, session_user, user_settings, conversations, messages, chat_last,
          model_cache, assigned, reqs, settings_table,
          available_models, lists, mi_last>>

\* What the actions of one component leave alone.
notCloneVars == <<cascadeVars, responseVars, chatVars, model_cache, assigned, reqs, settings_table,
                   integratorVars>>
notCascadeVars == <<cloneVars, responseVars, chatVars, model_cache, assigned, reqs, settings_table,
                   integratorVars>>
notResponseVars == <<cloneVars, cascadeVars, chatVars, model_cache, assigned, reqs, settings_table,
                   integratorVars>>
notChatVars == <<cloneVars, cascadeVars, responseVars, model_cache, assigned, reqs, settings_table,
                   integratorVars>>

(***************************************************************************)
(* Bounds of the model.                                                    *)
(***************************************************************************)
MaxCloneNum == 2
MaxSequence == 3
MaxApiClones == 1
MaxJsonMessages == 4
MaxSettingsUsers == 2
MaxSettingsRequests == 2
MaxSharingUsers == 2
MaxRaceRequests == 2
MaxVersionLen == 9
MaxCapabilities == 5
MaxUsers == 1
MaxConversations == 2
MaxMessages == 3

(***************************************************************************)
(* Text helpers: Python's str methods on TLA+ strings.                     *)
(***************************************************************************)
Chr(t, i) == SubSeq(t, i, i)

\* Python: k in t
Contains(t, k) == \E i \in 1..(Len(t) - Len(k) + 1) : SubSeq(t, i, i + Len(k) - 1) = k

StartsWith(t, k) == Len(k) <= Len(t) /\ SubSeq(t, 1, Len(k)) = k

\* Python: t.replace(pat, "") for a non-empty pat
RECURSIVE RemoveAll(_, _)
RemoveAll(t, pat) ==
    IF Len(t) = 0 THEN ""
    ELSE IF StartsWith(t, pat) THEN RemoveAll(SubSeq(t, Len(pat) + 1, Len(t)), pat)
    ELSE Chr(t, 1) \o RemoveAll(SubSeq(t, 2, Len(t)), pat)

Digits == <<"0", "1", "2", "3", "4", "5", "6", "7", "8", "9">>

IsDigit(c) == \E d \in 1..10 : Digits[d] = c

DigitVal(c) == (CHOOSE d \in 1..10 : Digits[d] = c) - 1

\* Python: str(n) for n >= 0
RECURSIVE NumToStr(_)
NumToStr(n) == IF n < 10 THEN Digits[n + 1] ELSE NumToStr(n \div 10) \o Digits[(n % 10) + 1]

\* int(t) succeeds on a non-empty string of digits
IsNumeral(t) == Len(t) > 0 /\ \A i \in 1..Len(t) : IsDigit(Chr(t, i))

RECURSIVE StrToNum(_)
StrToNum(t) ==
    IF Len(t) = 0 THEN 0
    ELSE 10 * StrToNum(SubSeq(t, 1, Len(t) - 1)) + DigitVal(Chr(t, Len(t)))

Upper == "ABCDEFGHIJKLMNOPQRSTUVWXYZ"
Lower == "abcdefghijklmnopqrstuvwxyz"

LowerOf == [c \in {Chr(Upper, i) : i \in 1..26} |->
               Chr(Lower, CHOOSE i \in 1..26 : Chr(Upper, i) = c)] @@ <<>>

LowerChar(c) == IF c \in DOMAIN LowerOf THEN LowerOf[c] ELSE c

\* Python: t.lower()
RECURSIVE ToLower(_)
ToLower(t) ==
    IF Len(t) = 0 THEN ""
    ELSE IF Len(t) = 1 THEN LowerChar(t)
    ELSE LET half == Len(t) \div 2
         IN  ToLower(SubSeq(t, 1, half)) \o ToLower(SubSeq(t, half + 1, Len(t)))

\* Python: any(word in t for word in words)
ContainsAny(t, words) == \E i \in 1..Len(words) : Contains(t, words[i])

(***************************************************************************)
(* More text helpers, for the response templates and the content filter.   *)
(***************************************************************************)
UpperChar(c) ==
    IF \E i \in 1..26 : Chr(Lower, i) = c
    THEN Chr(Upper, CHOOSE i \in 1..26 : Chr(Lower, i) = c)
    ELSE c

\* Python re: \s
IsSpace(c) == c \in {" ", "\t", "\n", "\r", "\f"}

\* Python re: \w (ASCII texts)
IsWordChar(c) ==
    \/ \E i \in 1..26 : Chr(Lower, i) = c \/ Chr(Upper, i) = c
    \/ IsDigit(c)
    \/ c = "_"

MinOf(S) == CHOOSE i \in S : \A j \in S : i <= j
MaxOf(S) == CHOOSE i \in S : \A j \in S : i >= j

\* The maximal runs of kept characters, in order: the \w runs when words is
\* TRUE, the runs between whitespace (str.split()) when it is FALSE.
RECURSIVE Runs(_, _, _, _, _)
Runs(t, i, cur, acc, words) ==
    LET closed == IF cur = "" THEN acc ELSE Append(acc, cur)
        keep == IF words THEN IsWordChar(Chr(t, i)) ELSE ~IsSpace(Chr(t, i))
    IN  IF i > Len(t) THEN closed
        ELSE IF keep THEN Runs(t, i + 1, cur \o Chr(t, i), acc, words)
        ELSE Runs(t, i + 1, "", closed, words)

\* Python: t.split()
Split(t) == Runs(t, 1, "", <<>>, FALSE)

\* Python: re.sub(r'[^\w\s]', '', t)
RECURSIVE StripPunctuation(_)
StripPunctuation(t) ==
    IF Len(t) = 0 THEN ""
    ELSE IF Len(t) = 1 THEN (IF IsWordChar(t) \/ IsSpace(t) THEN t ELSE "")
    ELSE LET half == Len(t) \div 2
         IN  StripPunctuation(SubSeq(t, 1, half)) \o StripPunctuation(SubSeq(t, half + 1, Len(t)))

\* Python: ' '.join(words)
RECURSIVE Join(_)
Join(words) ==
    IF Len(words) = 0 THEN ""
    ELSE IF Len(words) = 1 THEN words[1]
    ELSE words[1] \o " " \o Join(Tail(words))

\* Python: words[:n], words[-n:], words[a:b]
FirstN(words, n) == SubSeq(words, 1, IF n < Len(words) THEN n ELSE Len(words))
LastN(words, n) == SubSeq(words, IF Len(words) > n THEN Len(words) - n + 1 ELSE 1, Len(words))
Slice(words, a, b) == SubSeq(words, a + 1, IF b < Len(words) THEN b ELSE Len(words))

\* Python: [w for w in words if len(w) > n]
LongerThan(words, n) == SelectSeq(words, LAMBDA w : Len(w) > n)

\* Python: re.findall(r'\b\w{5,}\b', t)
FindTopics(t) == LongerThan(Runs(t, 1, "", <<>>, TRUE), 4)

\* Python: w.capitalize()
Capitalize(w) ==
    IF Len(w) = 0 THEN "" ELSE UpperChar(Chr(w, 1)) \o ToLower(SubSeq(w, 2, Len(w)))

\* Python: re.search of word alternatives separated by \s+, on lowercased
\* text; pat is a sequence of sets of lowercase words.
SkipSpaces(t, i) ==
    IF \E j \in i..Len(t) : ~IsSpace(Chr(t, j))
    THEN MinOf({j \in i..Len(t) : ~IsSpace(Chr(t, j))})
    ELSE Len(t) + 1

RECURSIVE MatchAt(_, _, _, _)
MatchAt(t, i, pat, k) ==
    \E w \in pat[k] :
        /\ i + Len(w) - 1 <= Len(t)
        /\ SubSeq(t, i, i + Len(w) - 1) = w
        /\ \/ k = Len(pat)
           \/ LET j == SkipSpaces(t, i + Len(w))
              IN  j > i + Len(w) /\ j <= Len(t) /\ MatchAt(t, j, pat, k + 1)

Search(pat, text) == LET t == ToLower(text) IN \E i \in 1..Len(t) : MatchAt(t, i, pat, 1)


(***************************************************************************)
(* The clone manager.  A row is                                            *)
(*   [clone_name, base_version, description, capabilities, is_active].     *)
(* clones is the committed table; the db session may also hold the bulk    *)
(* update of activate_clone that was neither committed nor rolled back     *)
(* (sess): the rows this session reads are SessionRows.                    *)
(***************************************************************************)
Descriptions == {"d1"}
BaseCaps == [mode |-> "base", limits |-> [cpu |-> "1", mem |-> "2"]]
CapUpdates == {[limits |-> [cpu |-> "4"], extra |-> "on"]}
NoUpdate == [none |-> "none"]
CloneNames == {"THOR" \o NumToStr(n) : n \in 1..MaxCloneNum} \cup {"THOR9"}

Deactivated(rows) == [i \in 1..Len(rows) |-> [rows[i] EXCEPT !.is_active = FALSE]]

SessionRows == IF sess THEN Deactivated(clones) ELSE clones

\* query(ThorClone).filter_by(clone_name=name).first(): the index of the row, 0 if none
FindClone(rows, name) ==
    IF \E i \in 1..Len(rows) : rows[i].clone_name = name
    THEN CHOOSE i \in 1..Len(rows) :
            /\ rows[i].clone_name = name
            /\ \A j \in 1..(i - 1) : rows[j].clone_name # name
    ELSE 0

\* A numbering by the count of rows.
GetNextCloneNumberByCount(rows) == Len(rows) + 1

\* _get_next_clone_number: the number after that of the row with the highest id
GetNextCloneNumber(rows) ==
    IF Len(rows) > 0
    THEN LET suffix == RemoveAll(rows[Len(rows)].clone_name, "THOR")
         IN  IF IsNumeral(suffix) THEN StrToNum(suffix) + 1 ELSE 1
    ELSE 1

\* A merge that goes into the dict under a key: its keys are merged too.
MergeCapsDeep(cur, upd) ==
    [k \in (DOMAIN cur) \cup (DOMAIN upd) |->
        IF k \notin DOMAIN upd THEN cur[k]
        ELSE IF k \in DOMAIN cur /\ k = "limits"
        THEN [f \in (DOMAIN cur[k]) \cup (DOMAIN upd[k]) |->
                 IF f \in DOMAIN upd[k] THEN upd[k][f] ELSE cur[k][f]]
        ELSE upd[k]]

\* current_capabilities.update(updates["capabilities"])
MergeCaps(cur, upd) ==
    [k \in (DOMAIN cur) \cup (DOMAIN upd) |-> IF k \in DOMAIN upd THEN upd[k] ELSE cur[k]]

\* A create_clone whose except branch leaves out db.session.rollback(): the
\* added row stays in the session and goes in with it.
CreateCloneWithoutRollback(desc, dbFails) ==
    LET rows == SessionRows
        num  == GetNextCloneNumber(rows)
        name == "THOR" \o NumToStr(num)
        row  == [clone_name |-> name, base_version |-> "1.0", description |-> desc,
                 capabilities |-> BaseCaps, is_active |-> FALSE]
    IN  /\ files' = files \cup {name}
        /\ sess' = FALSE
        /\ clones' = Append(rows, row)
        /\ cm_last' = [op |-> "create", name |-> IF dbFails THEN "" ELSE name,
                       ok |-> ~dbFails, db_failed |-> dbFails]

\* create_clone: the file is written first, then the row is added and committed;
\* a failing commit rolls the session back and leaves the file.
CreateClone(desc, dbFails) ==
    LET rows == SessionRows
        num  == GetNextCloneNumber(rows)
        name == "THOR" \o NumToStr(num)
        row  == [clone_name |-> name, base_version |-> "1.0", description |-> desc,
                 capabilities |-> BaseCaps, is_active |-> FALSE]
    IN  /\ files' = files \cup {name}
        /\ sess' = FALSE
        /\ IF dbFails
           THEN /\ clones' = clones
                /\ cm_last' = [op |-> "create", name |-> "", ok |-> FALSE, db_failed |-> TRUE]
           ELSE /\ clones' = Append(rows, row)
                /\ cm_last' = [op |-> "create", name |-> name, ok |-> TRUE, db_failed |-> FALSE]

\* A faulty activate_clone that leaves out the bulk "update all is_active=False".
ActivateCloneKeepingOthers(name, dbFails) ==
    LET rows == SessionRows
        i    == FindClone(rows, name)
    IN  /\ files' = files
        /\ sess' = FALSE
        /\ clones' = IF dbFails \/ i = 0 THEN clones ELSE [rows EXCEPT ![i].is_active = TRUE]
        /\ cm_last' = [op |-> "activate", name |-> name, ok |-> ~dbFails /\ i # 0,
                     db_failed |-> dbFails]

\* activate_clone: bulk update, then the target row; a missing target returns
\* False with neither commit nor rollback.
ActivateClone(name, dbFails) ==
    LET rows == Deactivated(SessionRows)
        i    == FindClone(rows, name)
    IN  /\ files' = files
        /\ IF dbFails
           THEN /\ clones' = clones
                /\ sess' = FALSE
                /\ cm_last' = [op |-> "activate", name |-> name, ok |-> FALSE,
                               db_failed |-> TRUE]
           ELSE IF i # 0
           THEN /\ clones' = [rows EXCEPT ![i].is_active = TRUE]
                /\ sess' = FALSE
                /\ cm_last' = [op |-> "activate", name |-> name, ok |-> TRUE,
                               db_failed |-> FALSE]
           ELSE /\ clones' = clones
                /\ sess' = (Len(clones) > 0)
                /\ cm_last' = [op |-> "activate", name |-> name, ok |-> FALSE,
                               db_failed |-> FALSE]

\* deactivate_all_clones
DeactivateAllClones(dbFails) ==
    /\ files' = files
    /\ sess' = FALSE
    /\ clones' = IF dbFails THEN clones ELSE Deactivated(SessionRows)
    /\ cm_last' = [op |-> "deactivate", name |-> "", ok |-> ~dbFails, db_failed |-> dbFails]

\* update_clone: description and capabilities (shallow merge); a missing clone
\* returns False before anything is touched.
UpdateClone(name, desc, caps, dbFails) ==
    LET rows == SessionRows
        i    == FindClone(rows, name)
        r1   == IF desc # "" THEN [rows[i] EXCEPT !.description = desc] ELSE rows[i]
        r2   == IF caps # NoUpdate
                THEN [r1 EXCEPT !.capabilities = MergeCaps(r1.capabilities, caps)]
                ELSE r1
    IN  /\ files' = files
        /\ IF i = 0
           THEN /\ UNCHANGED <<clones, sess>>
                /\ cm_last' = [op |-> "update", name |-> name, ok |-> FALSE,
                               db_failed |-> FALSE, description |-> desc,
                               capabilities |-> caps]
           ELSE /\ sess' = FALSE
                /\ clones' = IF dbFails THEN clones ELSE [rows EXCEPT ![i] = r2]
                /\ cm_last' = [op |-> "update", name |-> name, ok |-> ~dbFails,
                               db_failed |-> dbFails, description |-> desc,
                               capabilities |-> caps]

\* delete_clone: the file is removed first, then the row is deleted and committed
DeleteClone(name, dbFails) ==
    LET rows == SessionRows
        i    == FindClone(rows, name)
    IN  IF i = 0
        THEN /\ UNCHANGED <<clones, sess, files>>
             /\ cm_last' = [op |-> "delete", name |-> name, ok |-> FALSE,
                            db_failed |-> FALSE]
        ELSE /\ files' = files \ {name}
             /\ sess' = FALSE
             /\ clones' = IF dbFails THEN clones
                          ELSE [j \in 1..(Len(rows) - 1) |-> IF j < i THEN rows[j] ELSE rows[j + 1]]
             /\ cm_last' = [op |-> "delete", name |-> name, ok |-> ~dbFails,
                            db_failed |-> dbFails]

\* The end of a web request: Flask-SQLAlchemy removes the scoped session, which
\* discards what the request left uncommitted.
EndRequest ==
    /\ sess
    /\ sess' = FALSE
    /\ UNCHANGED <<clones, files>>
    /\ cm_last' = [op |-> "teardown", name |-> "", ok |-> TRUE, db_failed |-> FALSE]

CloneInit ==
    /\ clones = <<>>
    /\ sess = FALSE
    /\ files = {}
    /\ cm_last = [op |-> "init", name |-> "", ok |-> TRUE, db_failed |-> FALSE]

\* No capability request has been made.
\* settings=None in a call of generate_response
NoSettings == [is_none |-> TRUE]

ResponseIdle ==
    /\ req_prompt = ""
    /\ req_settings = NoSettings
    /\ resp_last = [op |-> "none"]

\* chat_last when the last request was to neither /api/chat nor /api/permission
NoRequest == [op |-> "none"]

\* The tables of models.py after db.create_all(), nobody logged in.
ChatIdle ==
    /\ nusers = 0
    /\ session_user = 0
    /\ user_settings = <<>>
    /\ conversations = <<>>
    /\ messages = <<>>
    /\ chat_last = NoRequest

CascadeIdle ==
    /\ thor_ai = FALSE
    /\ anthropic_ai = FALSE
    /\ cap_last = [cap |-> "none"]

\* The model_cache table after db.create_all()
ModelsIdle == model_cache = <<>>

\* No name given yet.
NamesIdle == assigned = {}

\* No request in progress, and no settings row put in by one.
RequestsIdle ==
    /\ reqs = <<>>
    /\ settings_table = <<>>

\* The integrator is not followed: no model, no list, no call.
IntegratorIdle ==
    /\ available_models = <<>>
    /\ lists = <<>>
    /\ mi_last = [op |-> "none"]

DoCreate ==
    /\ GetNextCloneNumber(SessionRows) <= MaxCloneNum
    /\ \E d \in Descriptions, f \in BOOLEAN : CreateClone(d, f)
    /\ UNCHANGED notCloneVars

DoActivate ==
    /\ \E n \in CloneNames, f \in BOOLEAN : ActivateClone(n, f)
    /\ UNCHANGED notCloneVars

DoDeactivate ==
    /\ \E f \in BOOLEAN : DeactivateAllClones(f)
    /\ UNCHANGED notCloneVars

DoUpdate ==
    /\ \E n \in CloneNames, d \in {"", "d2"}, c \in CapUpdates \cup {NoUpdate}, f \in BOOLEAN :
          UpdateClone(n, d, c, f)
    /\ UNCHANGED notCloneVars

DoDelete ==
    /\ \E n \in CloneNames, f \in BOOLEAN : DeleteClone(n, f)
    /\ UNCHANGED notCloneVars

DoEndRequest ==
    /\ EndRequest
    /\ UNCHANGED notCloneVars

CloneNext ==
    \/ DoCreate
    \/ DoActivate
    \/ DoDeactivate
    \/ DoUpdate
    \/ DoDelete
    \/ DoEndRequest

CloneSpecInit == CloneInit /\ CascadeIdle /\ ResponseIdle /\ ChatIdle /\ ModelsIdle
    /\ NamesIdle /\ RequestsIdle /\ IntegratorIdle

SpecClone == CloneSpecInit /\ [][CloneNext]_vars

(***************************************************************************)
(* Claims about the clone manager.                                         *)
(***************************************************************************)
ActiveCount(rows) == Cardinality({i \in 1..Len(rows) : rows[i].is_active})

\* C1: after any sequence of create, activate, deactivate-all, update and delete
\* calls, at most one clone is active (in the committed table and in what the
\* session reads); right after a successful activate(X), X is active and every
\* other clone is inactive; right after a successful create the new clone is
\* inactive.
C1_AtMostOneActive ==
    /\ ActiveCount(clones) <= 1
    /\ ActiveCount(SessionRows) <= 1
    /\ (cm_last.op = "activate" /\ cm_last.ok) =>
          /\ \E i \in 1..Len(clones) : clones[i].clone_name = cm_last.name
          /\ \A i \in 1..Len(clones) :
                clones[i].is_active <=> (clones[i].clone_name = cm_last.name)
    /\ (cm_last.op = "create" /\ cm_last.ok) =>
          /\ \E i \in 1..Len(clones) : clones[i].clone_name = cm_last.name
          /\ \A i \in 1..Len(clones) :
                (clones[i].clone_name = cm_last.name) => ~clones[i].is_active

\* Two clones exist and the second has just been activated.
C1_Witness ==
    /\ Len(clones) = 2
    /\ cm_last = [op |-> "activate", name |-> "THOR2", ok |-> TRUE, db_failed |-> FALSE]
    /\ clones[2].is_active
    /\ ~clones[1].is_active

(***************************************************************************)
(* The provider cascade of the advanced capabilities.                      *)
(***************************************************************************)
Capabilities ==
    {"generate_code", "analyze_code", "create_dataset", "network_scan", "suggest_improvements"}

\* The built-in code templates, cut to the text around their braces.
CodeTemplates ==
    [python |->
        [default |-> "print(Description: {})",
         web     |-> "app.run(host=0.0.0.0, port=5000, debug=True)",
         api     |-> "return jsonify({message: Data endpoint})",
         data    |-> "data = {x: [1, 2, 3, 4, 5], y: [10, 20, 25, 30, 35]}",
         ml      |-> "print(fMean Squared Error: {mse:.4f})"],
     javascript |->
        [default |-> "function main() { console.log(Description: {}); }",
         web     |-> "addEventListener(click, function() { alert(Button clicked!); });",
         api     |-> "async function fetchData() { try { const response = await fetch(url); } }",
         react   |-> "import React, { useState, useEffect } from react;"],
     java   |-> [default |-> "public class Main { System.out.println(Description: {}); }"],
     cpp    |-> [default |-> "int main() { std::cout << Description: {} << std::endl; }"],
     csharp |-> [default |-> "class Program { Console.WriteLine(Description: {}); }"]]

\* The keyword lists that pick the template category, in the order of the dict.
CategoryKeywords ==
    << [cat |-> "web",   words |-> <<"web", "website", "html", "css", "frontend", "app">>],
       [cat |-> "api",   words |-> <<"api", "rest", "endpoint", "server", "request", "response">>],
       [cat |-> "data",  words |-> <<"data", "processing", "csv", "pandas", "analysis", "plot", "graph">>],
       [cat |-> "ml",    words |-> <<"machine learning", "ml", "ai", "model", "train", "predict">>],
       [cat |-> "react", words |-> <<"react", "component", "jsx", "frontend framework">>] >>

FallbackCategory(description) ==
    LET d    == ToLower(description)
        hits == {i \in 1..Len(CategoryKeywords) : ContainsAny(d, CategoryKeywords[i].words)}
    IN  IF hits = {} THEN "default"
        ELSE CategoryKeywords[CHOOSE i \in hits : \A j \in hits : i <= j].cat

\* Python: template.format(one_argument) raises on a brace that is neither an
\* escaped brace nor the one "{}" field the argument fills.
RECURSIVE FormatRaises(_, _)
FormatRaises(t, used) ==
    IF Len(t) = 0 THEN FALSE
    ELSE IF StartsWith(t, "{{") \/ StartsWith(t, "}}")
         THEN FormatRaises(SubSeq(t, 3, Len(t)), used)
    ELSE IF StartsWith(t, "{}")
         THEN IF used >= 1 THEN TRUE ELSE FormatRaises(SubSeq(t, 3, Len(t)), used + 1)
    ELSE IF Chr(t, 1) \in {"{", "}"} THEN TRUE
    ELSE FormatRaises(SubSeq(t, 2, Len(t)), used)

\* _generate_fallback_code: TRUE when it raises
FallbackCodeRaises(description, language) ==
    LET l     == ToLower(language)
        temps == IF l \in DOMAIN CodeTemplates THEN CodeTemplates[l] ELSE CodeTemplates["python"]
        c     == FallbackCategory(description)
        temp  == IF c \in DOMAIN temps THEN temps[c] ELSE temps["default"]
    IN  FormatRaises(temp, 0)

\* _generate_fallback_dataset: range(size) raises when size is not an integer
FallbackDatasetRaises(size_is_int) == ~size_is_int

\* The built-in fallback generator of a capability: TRUE when it raises.  The
\* analysis, network-scan and improvement generators only test substrings.
FallbackRaises(cap, inp) ==
    CASE cap = "generate_code"  -> FallbackCodeRaises(inp.text, inp.language)
      [] cap = "create_dataset" -> FallbackDatasetRaises(inp.size_is_int)
      [] OTHER -> FALSE

\* ThorAI.<capability>: the upstream error is caught inside and its message is
\* returned as the value.
ThorAICall(cap, upstream) ==
    [raised |-> FALSE, value |-> IF upstream = "ok" THEN "text" ELSE "error_text"]

\* AnthropicAI.<capability> over generate_text, which catches the upstream error
\* and returns an apology as the text.
AnthropicAICall(cap, upstream) ==
    [raised |-> FALSE, value |-> IF upstream = "ok" THEN "text" ELSE "error_text"]

Returned(provider, payload, calls, raised_in) ==
    [raised |-> FALSE, status |-> "success", provider |-> provider, payload |-> payload,
     calls |-> calls, raised_in |-> raised_in]

RunFallback(cap, inp, calls, raised_in) ==
    IF FallbackRaises(cap, inp)
    THEN [raised |-> TRUE, status |-> "none", provider |-> "none", payload |-> "none",
          calls |-> Append(calls, "fallback"), raised_in |-> raised_in \cup {"fallback"}]
    ELSE Returned("none", "fallback", Append(calls, "fallback"), raised_in)

\* A faulty cascade that asks Anthropic before OpenAI.
CascadeAnthropicFirst(cap, inp, upOpenAI, upAnthropic) ==
    LET o == ThorAICall(cap, upOpenAI)
        a == AnthropicAICall(cap, upAnthropic)
    IN  IF ~thor_ai /\ ~anthropic_ai THEN RunFallback(cap, inp, <<>>, {})
        ELSE IF anthropic_ai THEN Returned("anthropic", a.value, <<"anthropic">>, {})
        ELSE Returned("openai", o.value, <<"openai">>, {})

\* AIEngine.generate_code, analyze_code, create_dataset, network_scan and
\* suggest_improvements share this body.
Cascade(cap, inp, upOpenAI, upAnthropic) ==
    LET o == ThorAICall(cap, upOpenAI)
        a == AnthropicAICall(cap, upAnthropic)
    IN  IF ~thor_ai /\ ~anthropic_ai THEN RunFallback(cap, inp, <<>>, {})
        ELSE IF thor_ai
        THEN IF ~o.raised THEN Returned("openai", o.value, <<"openai">>, {})
             ELSE IF anthropic_ai
             THEN IF ~a.raised
                  THEN Returned("anthropic", a.value, <<"openai", "anthropic">>, {"openai"})
                  ELSE RunFallback(cap, inp, <<"openai", "anthropic">>, {"openai", "anthropic"})
             ELSE RunFallback(cap, inp, <<"openai">>, {"openai"})
        ELSE IF ~a.raised THEN Returned("anthropic", a.value, <<"anthropic">>, {})
             ELSE RunFallback(cap, inp, <<"anthropic">>, {"anthropic"})

Answer(cap, inp, upOpenAI, upAnthropic, http, r, escaped) ==
    [cap |-> cap, inp |-> inp, upOpenAI |-> upOpenAI, upAnthropic |-> upAnthropic,
     http |-> http, status |-> r.status, provider |-> r.provider, payload |-> r.payload,
     calls |-> r.calls, raised_in |-> r.raised_in, escaped |-> escaped]

NotRun(status) ==
    [raised |-> FALSE, status |-> status, provider |-> "none", payload |-> "none",
     calls |-> <<>>, raised_in |-> {}]

\* A faulty endpoint without the try/except around the engine call.
CapabilityRouteWithoutCatch(cap, logged_in, inp, upOpenAI, upAnthropic) ==
    LET r == Cascade(cap, inp, upOpenAI, upAnthropic)
    IN  /\ cap_last' =
              IF ~logged_in THEN Answer(cap, inp, upOpenAI, upAnthropic, 401, NotRun("none"), FALSE)
              ELSE IF cap # "suggest_improvements" /\ inp.text = ""
              THEN Answer(cap, inp, upOpenAI, upAnthropic, 400, NotRun("none"), FALSE)
              ELSE Answer(cap, inp, upOpenAI, upAnthropic, IF r.raised THEN 500 ELSE 200, r, r.raised)
        /\ UNCHANGED <<thor_ai, anthropic_ai>>

\* The /api/thor/<capability> endpoints: 401 without a user, 400 without the
\* required field, else the engine's result, or status=error with 500 when the
\* engine raised.
CapabilityRoute(cap, logged_in, inp, upOpenAI, upAnthropic) ==
    LET r == Cascade(cap, inp, upOpenAI, upAnthropic)
    IN  /\ cap_last' = [logged_in |-> logged_in] @@
              IF ~logged_in THEN Answer(cap, inp, upOpenAI, upAnthropic, 401, NotRun("none"), FALSE)
              ELSE IF cap # "suggest_improvements" /\ inp.text = ""
              THEN Answer(cap, inp, upOpenAI, upAnthropic, 400, NotRun("none"), FALSE)
              ELSE IF r.raised
              THEN Answer(cap, inp, upOpenAI, upAnthropic, 500, [r EXCEPT !.status = "error"], FALSE)
              ELSE Answer(cap, inp, upOpenAI, upAnthropic, 200, r, FALSE)
        /\ UNCHANGED <<thor_ai, anthropic_ai>>

CapTexts == {"", "Sort a list", "A REST API client", "Plot the CSV data"}
CapLanguages == {"python", "JavaScript", "ruby"}
Upstreams == {"ok", "fail"}

CapInput(text, language, size_is_int) ==
    [text |-> text, language |-> language, size_is_int |-> size_is_int]

\* POST /api/thor/generate-code {description, language}
ThorGenerateCode ==
    /\ \E logged_in \in BOOLEAN, d \in CapTexts, l \in CapLanguages, upO \in Upstreams, upA \in Upstreams :
          CapabilityRoute("generate_code", logged_in, CapInput(d, l, TRUE), upO, upA)
    /\ UNCHANGED notCascadeVars

\* POST /api/thor/analyze-code {code}
ThorAnalyzeCode ==
    /\ \E logged_in \in BOOLEAN, c \in CapTexts, upO \in Upstreams, upA \in Upstreams :
          CapabilityRoute("analyze_code", logged_in, CapInput(c, "python", TRUE), upO, upA)
    /\ UNCHANGED notCascadeVars

\* POST /api/thor/create-dataset {description, format, size}
ThorCreateDataset ==
    /\ \E logged_in \in BOOLEAN, d \in CapTexts, n \in BOOLEAN, upO \in Upstreams, upA \in Upstreams :
          CapabilityRoute("create_dataset", logged_in, CapInput(d, "python", n), upO, upA)
    /\ UNCHANGED notCascadeVars

\* POST /api/thor/network-scan {target_description}
ThorNetworkScan ==
    /\ \E logged_in \in BOOLEAN, d \in CapTexts, upO \in Upstreams, upA \in Upstreams :
          CapabilityRoute("network_scan", logged_in, CapInput(d, "python", TRUE), upO, upA)
    /\ UNCHANGED notCascadeVars

\* POST /api/thor/suggest-improvements {}
ThorSuggestImprovements ==
    /\ \E logged_in \in BOOLEAN, upO \in Upstreams, upA \in Upstreams :
          CapabilityRoute("suggest_improvements", logged_in, CapInput("", "python", TRUE), upO, upA)
    /\ UNCHANGED notCascadeVars

\* AIEngine.__init__: a provider is set when its API key is in the environment.
CascadeInit ==
    /\ thor_ai \in BOOLEAN
    /\ anthropic_ai \in BOOLEAN
    /\ cap_last = [cap |-> "none"]

CascadeNext ==
    \/ ThorGenerateCode
    \/ ThorAnalyzeCode
    \/ ThorCreateDataset
    \/ ThorNetworkScan
    \/ ThorSuggestImprovements

CascadeSpecInit == CascadeInit /\ CloneInit /\ ResponseIdle /\ ChatIdle /\ ModelsIdle
    /\ NamesIdle /\ RequestsIdle /\ IntegratorIdle

SpecCascade == CascadeSpecInit /\ [][CascadeNext]_vars

(***************************************************************************)
(* Claims about the provider cascade.                                      *)
(***************************************************************************)
\* The last request reached the engine (it was neither a 401 nor a 400).
EngineRan == cap_last.cap # "none" /\ cap_last.http \in {200, 500}

Attempted(stage) == \E i \in 1..Len(cap_last.calls) : cap_last.calls[i] = stage

UpstreamFailed(stage) ==
    \/ stage = "openai" /\ cap_last.upOpenAI = "fail"
    \/ stage = "anthropic" /\ cap_last.upAnthropic = "fail"

\* C2: when the upstream request of a provider that was attempted fails, the
\* answer is not that provider's: it carries neither the provider's tag nor the
\* provider's error text, and comes from the next provider or the fallback.
C2_FailureOnlyTriggersCascade ==
    EngineRan =>
        \A stage \in {"openai", "anthropic"} :
            (Attempted(stage) /\ UpstreamFailed(stage)) =>
                /\ cap_last.provider # stage
                /\ cap_last.payload # "error_text"

StageRank(stage) ==
    CASE stage = "openai" -> 1 [] stage = "anthropic" -> 2 [] stage = "fallback" -> 3

\* C3: the stages are attempted in the order OpenAI, Anthropic, fallback, each at
\* most once; OpenAI comes first when it is configured; Anthropic is attempted
\* only if it is configured and OpenAI is not configured or raised; the fallback
\* only if every configured provider raised; the answer is that of the first
\* stage that did not raise, tagged with the provider, or untagged for the
\* fallback.
C3_CascadeOrder ==
    EngineRan =>
        LET calls == cap_last.calls
            n     == Len(calls)
        IN  /\ n >= 1
            /\ \A i, j \in 1..n : i < j => StageRank(calls[i]) < StageRank(calls[j])
            /\ thor_ai => calls[1] = "openai"
            /\ Attempted("openai") => thor_ai
            /\ Attempted("anthropic") =>
                  anthropic_ai /\ (~thor_ai \/ "openai" \in cap_last.raised_in)
            /\ Attempted("fallback") =>
                  /\ thor_ai => "openai" \in cap_last.raised_in
                  /\ anthropic_ai => "anthropic" \in cap_last.raised_in
            /\ \A i \in 1..(n - 1) : calls[i] \in cap_last.raised_in
            /\ calls[n] \notin cap_last.raised_in =>
                  /\ cap_last.status = "success"
                  /\ cap_last.provider = IF calls[n] = "fallback" THEN "none" ELSE calls[n]

\* Anthropic answered because OpenAI is not configured.
C3_Witness ==
    /\ EngineRan
    /\ ~thor_ai
    /\ anthropic_ai
    /\ cap_last.calls = <<"anthropic">>
    /\ cap_last.provider = "anthropic"
    /\ cap_last.status = "success"

\* C4: with no provider configured, every capability request that reaches the
\* engine makes no provider call and returns the fallback result with
\* status=success and no provider tag.
C4_NoProviderFallbackSuccess ==
    (EngineRan /\ ~thor_ai /\ ~anthropic_ai) =>
        /\ cap_last.calls = <<"fallback">>
        /\ cap_last.status = "success"
        /\ cap_last.provider = "none"
        /\ cap_last.payload = "fallback"

\* C5: a capability request that reaches the engine is answered with
\* status=error exactly when the fallback generator raised and with
\* status=success otherwise, whatever the providers did; no exception escapes.
C5_ErrorIffFallbackRaises ==
    EngineRan =>
        /\ ~cap_last.escaped
        /\ cap_last.status \in {"success", "error"}
        /\ (cap_last.status = "error") <=> ("fallback" \in cap_last.raised_in)
        /\ (cap_last.status = "error") <=> (cap_last.http = 500)

\* The fallback generator raised and the endpoint answered status=error.
C5_Witness ==
    /\ EngineRan
    /\ "fallback" \in cap_last.raised_in
    /\ cap_last.status = "error"
    /\ cap_last.http = 500

(***************************************************************************)
(* Response pipeline: AIEngine.generate_response and its helpers.          *)
(***************************************************************************)
Responses ==
    [greeting |-> <<
        "Hello! I'm THOR. How can I assist you today?",
        "Hi there! THOR AI at your service. What can I help you with?",
        "Greetings! This is THOR. How may I be of service?",
        "Welcome to THOR AI! What would you like to know?">>,
     farewell |-> <<
        "Goodbye! Feel free to return if you have more questions.",
        "Farewell! Have a great day!",
        "Until next time! Take care.",
        "Bye for now! Let me know if you need anything else.">>,
     question |-> <<
        "That's an interesting question. From my analysis, ",
        "Based on my knowledge, ",
        "According to my information, ",
        "From what I understand, ">>,
     coding |-> <<
        "Here's how you might approach coding this: ",
        "In Python, you could implement this using: ",
        "The programming solution for this would be: ",
        "Here's a code snippet that might help: ">>,
     learning |-> <<
        "I'd be happy to help you learn about this. Let's start with the basics: ",
        "As your learning assistant, I can explain that ",
        "Here's a step-by-step approach to understanding this concept: ",
        "This is a great topic to explore. The key points to understand are: ">>,
     growth |-> <<
        "For personal growth in this area, I recommend starting with: ",
        "To develop this skill, here's what THOR suggests: ",
        "I can help you improve in this area. First, consider: ",
        "Personal development is a journey. Here's how you might approach this: ">>,
     testing |-> <<
        "Let's test this idea. We could approach it by: ",
        "To validate this concept, THOR suggests: ",
        "Here's a framework for testing your hypothesis: ",
        "Experimentation is key to learning. You might try: ">>,
     fallback |-> <<
        "As THOR, I'm still learning about that topic. Can you tell me more?",
        "That's an interesting request. Let me think about how THOR can help with that.",
        "THOR is processing that request. Could you provide more details?",
        "I'm THOR, designed to help with various tasks. Can you be more specific about what you need?">>]

\* random.choice(templates): the index drawn
TemplateChoices == 1..4

ModelName == "THOR AI Engine"

DefaultSettings ==
    [content_filter_enabled |-> TRUE, ethics_check_enabled |-> TRUE, permission_required |-> TRUE]

\* Python: settings.get(key, default)
SettingsGet(settings, key, default) ==
    IF key \in DOMAIN settings THEN settings[key] ELSE default

SensitiveOperations ==
    << [keyword |-> "disable safety",
        reason |-> "disabling all safety features (only applies to critical systems)"],
       [keyword |-> "turn off ethics",
        reason |-> "disabling all ethics checks (only applies to critical systems)"],
       [keyword |-> "hack",
        reason |-> "attempting potentially harmful operations on external systems"] >>

\* The same loop returning the reason of the last keyword that occurs.
CheckPermissionsLastMatch(prompt, settings) ==
    LET prompt_lower == ToLower(prompt)
        hits == {i \in 1..Len(SensitiveOperations) :
                    Contains(prompt_lower, SensitiveOperations[i].keyword)}
    IN  IF hits = {} THEN [requires_permission |-> FALSE, reason |-> ""]
        ELSE [requires_permission |-> TRUE, reason |-> SensitiveOperations[MaxOf(hits)].reason]

CheckPermissions(prompt, settings) ==
    LET prompt_lower == ToLower(prompt)
        hits == {i \in 1..Len(SensitiveOperations) :
                    Contains(prompt_lower, SensitiveOperations[i].keyword)}
    IN  IF hits = {} THEN [requires_permission |-> FALSE, reason |-> ""]
        ELSE [requires_permission |-> TRUE, reason |-> SensitiveOperations[MinOf(hits)].reason]

\* The branches of _analyze_intent, in the order of its if/elif chain.
IntentKeywords ==
    << [intent |-> "greeting", words |-> <<"hello", "hi", "hey", "greetings">>],
       [intent |-> "farewell", words |-> <<"bye", "goodbye", "farewell", "see you">>],
       [intent |-> "question", words |-> <<"what", "why", "how", "when", "where", "who">>],
       [intent |-> "coding",
        words |-> <<"code", "program", "function", "class", "python", "javascript">>],
       [intent |-> "learning",
        words |-> <<"learn", "study", "understand", "concept", "explain", "tutorial", "guide">>],
       [intent |-> "growth",
        words |-> <<"personal", "growth", "improve", "better", "develop", "skill", "progress">>],
       [intent |-> "testing",
        words |-> <<"test", "try", "experiment", "check", "validate", "verify", "simulation">>] >>

\* The condition of branch i of _analyze_intent.
IntentBranch(i, text, text_lower) ==
    \/ ContainsAny(text_lower, IntentKeywords[i].words)
    \/ IntentKeywords[i].intent = "question" /\ Contains(text, "?")

\* The same chain with the question branch tested first.
AnalyzeIntentQuestionFirst(text) ==
    LET text_lower == ToLower(text)
        hits == {i \in 1..Len(IntentKeywords) : IntentBranch(i, text, text_lower)}
    IN  IF 3 \in hits THEN "question"
        ELSE IF hits = {} THEN "general"
        ELSE IntentKeywords[MinOf(hits)].intent

AnalyzeIntent(text) ==
    LET text_lower == ToLower(text)
        hits == {i \in 1..Len(IntentKeywords) : IntentBranch(i, text, text_lower)}
    IN  IF hits = {} THEN "general" ELSE IntentKeywords[MinOf(hits)].intent

\* The snippets of the coding branch; the Markdown fence of three backquotes is
\* written as three apostrophes, a TLA+ string cannot hold a backquote.
PythonSnippet ==
    "\n'''python\n# Example Python code\ndef example_function():\n    print('Hello, World!')\n    return True\n\n# Call the function\nresult = example_function()\n'''"

JavascriptSnippet ==
    "\n'''javascript\n// Example JavaScript code\nfunction exampleFunction() {\n    console.log('Hello, World!');\n    return true;\n}\n\n// Call the function\nconst result = exampleFunction();\n'''"

\* The question branch of _generate_text_response.
QuestionResponse(template, prompt) ==
    LET question_words == Split(StripPunctuation(prompt))
        keywords == LongerThan(question_words, 3)
    IN  IF Len(question_words) > 3
        THEN template \o "it appears that " \o Join(FirstN(keywords, 3))
             \o " is related to "
             \o Join(IF Len(keywords) > 2 THEN LastN(keywords, 2) ELSE keywords)
             \o ". Would you like more information on this topic?"
        ELSE template
             \o "that's a topic I'm still learning about. Could you provide more context?"

\* The coding branch.
CodingResponse(template, prompt) ==
    IF Contains(ToLower(prompt), "python") THEN template \o PythonSnippet
    ELSE IF Contains(ToLower(prompt), "javascript") THEN template \o JavascriptSnippet
    ELSE template
         \o "I'd need to know which programming language you're interested in. Could you specify?"

\* The learning branch.
LearningResponse(template, prompt) ==
    LET topics == FindTopics(ToLower(prompt))
    IN  IF Len(topics) > 0
        THEN template \o Capitalize(topics[1])
             \o " is a fascinating subject to learn about. I recommend starting with understanding the core principles, then practicing with real examples, and finally teaching others to solidify your knowledge."
        ELSE template
             \o "Learning is most effective when you have a specific goal in mind. What particular topic or skill would you like to explore?"

\* The final else branch; choice2 is its own draw from the fallback templates.
GeneralResponse(prompt, choice2) ==
    LET words == Split(prompt)
    IN  IF Len(words) > 5
        THEN "I understand you're interested in " \o Join(Slice(words, 1, 4))
             \o ". Could you tell me more specifically what you'd like to know about this?"
        ELSE Responses.fallback[choice2]

\* A responder that takes the general branch for every intent.
GenerateTextResponseAllGeneral(prompt, intent, conversation_history, choice, choice2) ==
    GeneralResponse(prompt, choice2)

\* choice is the template drawn by random.choice(templates).
GenerateTextResponse(prompt, intent, conversation_history, choice, choice2) ==
    LET templates == IF intent \in DOMAIN Responses THEN Responses[intent]
                     ELSE Responses.fallback
        template == templates[choice]
    IN  IF intent = "greeting" THEN template
        ELSE IF intent = "farewell" THEN template
        ELSE IF intent = "question" THEN QuestionResponse(template, prompt)
        ELSE IF intent = "coding" THEN CodingResponse(template, prompt)
        ELSE IF intent = "learning" THEN LearningResponse(template, prompt)
        ELSE IF intent = "growth" THEN
            template
            \o "Setting clear goals, consistent practice, seeking feedback, and reflecting on your progress. Would you like me to elaborate on any of these aspects of personal growth?"
        ELSE IF intent = "testing" THEN
            template
            \o "Start with a clear hypothesis, design a simple experiment, gather data, analyze results, and refine your approach based on what you learn. What concept would you like to test specifically?"
        ELSE GeneralResponse(prompt, choice2)

\* unsafe_patterns of AIEngine._filter_unsafe_content
UnsafePatterns ==
    << << {"launch", "execute"}, {"malware", "virus", "ransomware"} >>,
       << {"attack", "compromise"}, {"critical", "government", "protected"},
          {"system", "server", "network"} >> >>

Refusal ==
    "I apologize, but I cannot assist with that request as it appears to involve potentially harmful or unethical actions."

\* A filter that lowercases the texts it lets through.
FilterUnsafeContentLowering(text) ==
    IF \E p \in 1..Len(UnsafePatterns) : Search(UnsafePatterns[p], text)
    THEN Refusal
    ELSE ToLower(text)

\* A filter that keeps the text behind a notice.
FilterUnsafeContentMarking(text) ==
    IF \E p \in 1..Len(UnsafePatterns) : Search(UnsafePatterns[p], text)
    THEN "[removed] " \o text
    ELSE text

FilterUnsafeContent(text) ==
    IF \E p \in 1..Len(UnsafePatterns) : Search(UnsafePatterns[p], text)
    THEN Refusal
    ELSE text

PermissionEnvelope(reason) ==
    [text |-> "This operation requires permission: " \o reason \o ". Please confirm to proceed.",
     requires_permission |-> TRUE,
     permission_reason |-> reason,
     status |-> "permission_required"]

\* The same steps with the content filter never applied.
RespondToUnfiltered(prompt, conversation_history, settings, choice, choice2) ==
    LET intent == AnalyzeIntent(prompt)
        response_text ==
            GenerateTextResponse(prompt, intent, conversation_history, choice, choice2)
    IN  [result |-> [text |-> response_text, model |-> ModelName, status |-> "success"],
         stages |-> <<"check_permissions", "analyze_intent", "generate_text_response">>,
         intent |-> intent,
         generated |-> response_text]

\* The rest of generate_response once the permission check has let the prompt through.
RespondTo(prompt, conversation_history, settings, choice, choice2) ==
    LET intent == AnalyzeIntent(prompt)
        response_text ==
            GenerateTextResponse(prompt, intent, conversation_history, choice, choice2)
        filtered == SettingsGet(settings, "content_filter_enabled", TRUE)
    IN  [result |-> [text |-> IF filtered THEN FilterUnsafeContent(response_text)
                              ELSE response_text,
                     model |-> ModelName,
                     status |-> "success"],
         stages |-> <<"check_permissions", "analyze_intent", "generate_text_response">>
                    \o (IF filtered THEN <<"filter_unsafe_content">> ELSE <<>>),
         intent |-> intent,
         generated |-> response_text]

\* generate_response with the flag read as settings.get("permission_required", False)
GenerateResponseFlagDefaultFalse(prompt, conversation_history, settings_arg, choice, choice2) ==
    LET settings == IF settings_arg = NoSettings THEN DefaultSettings ELSE settings_arg
        perm == CheckPermissions(prompt, settings)
    IN  IF perm.requires_permission /\ SettingsGet(settings, "permission_required", FALSE)
        THEN [result |-> PermissionEnvelope(perm.reason),
              stages |-> <<"check_permissions">>, intent |-> "", generated |-> ""]
        ELSE RespondTo(prompt, conversation_history, settings, choice, choice2)

\* The value is the returned envelope (result) with a trace of the helpers
\* that ran (stages) and what the skipped or run helpers produced.
GenerateResponse(prompt, conversation_history, settings_arg, choice, choice2) ==
    LET settings == IF settings_arg = NoSettings THEN DefaultSettings ELSE settings_arg
        perm == CheckPermissions(prompt, settings)
    IN  IF perm.requires_permission /\ SettingsGet(settings, "permission_required", TRUE)
        THEN [result |-> PermissionEnvelope(perm.reason),
              stages |-> <<"check_permissions">>, intent |-> "", generated |-> ""]
        ELSE RespondTo(prompt, conversation_history, settings, choice, choice2)

\* The prompts the response pipeline is applied to.
Prompts ==
    { "",
      "hello",
      "Hello?",
      "this is fine",
      "goodbye",
      "see you, what now?",
      "Can you hack into a server?",
      "HACK and Disable Safety now",
      "turn off ethics",
      "clone yourself",
      "open an ssh session",
      "write python code",
      "a javascript function",
      "a class in rust",
      "learn about recursion",
      "study it",
      "improve my skill",
      "test and verify",
      "learn to test code",
      "explain and improve",
      "please launch malware on the old laptop",
      "go attack system files for me now" }

SettingsKeys == {"permission_required", "content_filter_enabled"}

\* settings=None and the dicts that hold some of the keys the pipeline reads.
SettingsArgs == {NoSettings} \cup UNION {[S -> BOOLEAN] : S \in SUBSET SettingsKeys}

ResponseInit ==
    /\ req_prompt \in Prompts
    /\ req_settings \in SettingsArgs
    /\ resp_last = [op |-> "none"]

DoGenerateResponse ==
    /\ \E choice \in TemplateChoices, choice2 \in TemplateChoices :
          resp_last' = [op |-> "generate_response",
                        out |-> GenerateResponse(req_prompt, <<>>, req_settings, choice, choice2)]
    /\ UNCHANGED <<req_prompt, req_settings>>
    /\ UNCHANGED notResponseVars

DoCheckPermissions ==
    /\ resp_last' = [op |-> "check_permissions",
                     out |-> CheckPermissions(req_prompt, req_settings)]
    /\ UNCHANGED <<req_prompt, req_settings>>
    /\ UNCHANGED notResponseVars

DoAnalyzeIntent ==
    /\ resp_last' = [op |-> "analyze_intent", out |-> AnalyzeIntent(req_prompt)]
    /\ UNCHANGED <<req_prompt, req_settings>>
    /\ UNCHANGED notResponseVars

ResponseNext ==
    \/ DoGenerateResponse
    \/ DoCheckPermissions
    \/ DoAnalyzeIntent

ResponseSpecInit == ResponseInit /\ CloneInit /\ CascadeIdle /\ ChatIdle /\ ModelsIdle
    /\ NamesIdle /\ RequestsIdle /\ IntegratorIdle

SpecResponse == ResponseSpecInit /\ [][ResponseNext]_vars

(***************************************************************************)
(* Chat and permission endpoints: routes.py over the tables of models.py.  *)
(***************************************************************************)
\* No UserSettings row for a user id.
NoRow == [none |-> TRUE]

\* UserSettings(): the column defaults of the fields the pipeline reads.
DefaultUserSettings == [content_filter_enabled |-> TRUE, permission_required |-> TRUE]

\* data.get('conversation_id') when the key is absent (or falsy)
NoId == 0

DenialText == "Permission denied. I'll continue with standard operations only."

\* The messages sent to the chat endpoint; "" is also what data.get('message', '')
\* gives for a request without the key.
ChatMessages == {"", "hello", "Can you hack into a server?"}

\* Messages that are a str or a JSON number, as <<str(), is_str>>.
JsonMessages == {<<"hello", TRUE>>, <<"5", FALSE>>}

\* The texts the routes can hand to the engine: the messages sent and the
\* contents read back from the message table.
EngineInputs == ChatMessages \cup {m[1] : m \in JsonMessages}

\* The conversation ids a request can name: none, the ids in use, one unused.
ConversationIds == 0..(Len(conversations) + 1)

\* The dict with permission_required false whatever the row holds.
SettingsDictWithoutPermission(row, permission_required) ==
    [content_filter_enabled |-> row.content_filter_enabled,
     permission_required |-> FALSE]

\* The settings dict a route builds from a UserSettings row.
SettingsDict(row, permission_required) ==
    [content_filter_enabled |-> row.content_filter_enabled,
     permission_required |-> permission_required]

\* ai_engine.generate_response on the messages and settings dicts the routes
\* pass; _generate_text_response never reads conversation_history.  (f @@ <<>>
\* is f, held as a table of its values.)
EngineAnswers ==
    [m \in EngineInputs, s \in [SettingsKeys -> BOOLEAN],
     choice \in TemplateChoices, choice2 \in TemplateChoices |->
        GenerateResponse(m, <<>>, s, choice, choice2)] @@ <<>>

\* The draws of random.choice(self.responses["fallback"]): it is only called
\* in the general branch, for a prompt of at most five words.
SecondDraws ==
    [m \in EngineInputs |->
        IF AnalyzeIntent(m) = "general" /\ Len(Split(m)) <= 5 THEN TemplateChoices ELSE {1}]
    @@ <<>>

\* Message.query.filter_by(conversation_id=id): positions in timestamp order
MessagesOf(id) == {i \in 1..Len(messages) : messages[i].conversation_id = id}

\* The same with is_user=True
UserMessagesOf(id) == {i \in MessagesOf(id) : messages[i].is_user}

NewMessage(id, is_user, content) ==
    [conversation_id |-> id, is_user |-> is_user, content |-> content]

\* chat saving the text of the response whatever the response is.
SavedAnswerAlways(with_user, conversation_id, response_data) ==
    Append(with_user, NewMessage(conversation_id, FALSE, response_data.result.text))

\* The message table when chat returns: the AI message is added unless the
\* response asks for permission.
SavedAnswer(with_user, conversation_id, response_data) ==
    IF SettingsGet(response_data.result, "requires_permission", FALSE)
    THEN with_user
    ELSE Append(with_user, NewMessage(conversation_id, FALSE, response_data.result.text))

\* The user row and its settings row are inserted, the user is logged in.
Register ==
    /\ nusers < MaxUsers
    /\ nusers' = nusers + 1
    /\ user_settings' = Append(user_settings, DefaultUserSettings)
    /\ session_user' = nusers + 1
    /\ chat_last' = NoRequest
    /\ UNCHANGED <<conversations, messages>>
    /\ UNCHANGED notChatVars

Login ==
    /\ \E u \in 1..nusers : session_user' = u
    /\ chat_last' = NoRequest
    /\ UNCHANGED <<nusers, user_settings, conversations, messages>>
    /\ UNCHANGED notChatVars

Logout ==
    /\ session_user' = 0
    /\ chat_last' = NoRequest
    /\ UNCHANGED <<nusers, user_settings, conversations, messages>>
    /\ UNCHANGED notChatVars

\* POST /settings: the row is created when missing, then set from the form.
UpdateSettings(content_filter, permission_required) ==
    IF session_user = 0
    THEN /\ chat_last' = NoRequest
         /\ UNCHANGED <<nusers, session_user, user_settings, conversations, messages>>
    ELSE /\ user_settings' = [user_settings EXCEPT ![session_user] =
                                 [content_filter_enabled |-> content_filter,
                                  permission_required |-> permission_required]]
         /\ chat_last' = NoRequest
         /\ UNCHANGED <<nusers, session_user, conversations, messages>>

PostSettings ==
    /\ \E f \in BOOLEAN, p \in BOOLEAN : UpdateSettings(f, p)
    /\ UNCHANGED notChatVars

\* What is common to the records of the requests of the two endpoints.
Request(op, id) ==
    [op |-> op, user |-> session_user, named |-> id,
     before |-> Len(messages), conversations_before |-> Len(conversations),
     settings_before |-> user_settings]

\* generate_response's except branch, e being str(e) of the exception
ErrorEnvelope(e) == [text |-> "I'm sorry, I encountered an error: " \o e, status |-> "error"]

\* str(e) of the AttributeError of prompt.lower() in _check_permissions when
\* the prompt is an int
IntHasNoLower == "'int' object has no attribute 'lower'"

\* generate_response on a prompt that is an int: the first helper raises and
\* the except branch answers.
GenerateResponseOnInt ==
    [result |-> ErrorEnvelope(IntHasNoLower),
     stages |-> <<"check_permissions">>, intent |-> "", generated |-> ""]

\* POST /api/chat with a message that is a str (is_str) or a JSON number, of
\* which message is then the str(): what the Text column keeps of it.
ChatJson(message, is_str, named) ==
    LET user_id == session_user
        row == IF user_settings[user_id] = NoRow THEN DefaultUserSettings
               ELSE user_settings[user_id]
        settings_dict == SettingsDict(row, row.permission_required)
        is_new == named = NoId
        conversation_id == IF is_new THEN Len(conversations) + 1 ELSE named
        found == named \in 1..Len(conversations)
        with_user == Append(messages, NewMessage(conversation_id, TRUE, message))
        history == {i \in 1..Len(with_user) : with_user[i].conversation_id = conversation_id}
        title == IF is_new THEN "New Conversation" ELSE conversations[named].title
        new_title == IF title = "New Conversation" /\ Cardinality(history) <= 2
                     THEN (IF Len(message) > 30 THEN SubSeq(message, 1, 30) \o "..."
                           ELSE message)
                     ELSE title
        opened == IF is_new
                  THEN Append(conversations, [user_id |-> user_id, title |-> title])
                  ELSE conversations
        req == Request("chat", named)
    IN  IF user_id = 0
        THEN /\ chat_last' = req @@ [http |-> 401,
                                     body |-> [error |-> "User not logged in",
                                               response |-> "Please log in to continue the conversation."]]
             /\ UNCHANGED <<nusers, session_user, user_settings, conversations, messages>>
        ELSE IF ~is_new /\ (~found \/ conversations[named].user_id # user_id)
        THEN /\ user_settings' = [user_settings EXCEPT ![user_id] = row]
             /\ chat_last' = req @@ [http |-> 400, body |-> [error |-> "Invalid conversation ID"]]
             /\ UNCHANGED <<nusers, session_user, conversations, messages>>
        ELSE \E choice \in TemplateChoices,
                choice2 \in (IF is_str THEN SecondDraws[message] ELSE {1}) :
             LET response_data == IF is_str
                                  THEN EngineAnswers[message, settings_dict, choice, choice2]
                                  ELSE GenerateResponseOnInt
                 text == response_data.result.text
             IN  IF SettingsGet(response_data.result, "requires_permission", FALSE)
                 THEN /\ user_settings' = [user_settings EXCEPT ![user_id] = row]
                      /\ conversations' = opened
                      /\ messages' = SavedAnswer(with_user, conversation_id, response_data)
                      /\ chat_last' = req @@ [http |-> 200, message |-> message,
                                              engine |-> response_data,
                                              body |-> [response |-> text,
                                                        requires_permission |-> TRUE,
                                                        permission_reason |->
                                                            SettingsGet(response_data.result,
                                                                        "permission_reason", ""),
                                                        conversation_id |-> conversation_id]]
                      /\ UNCHANGED <<nusers, session_user>>
                 ELSE IF ~is_str /\ title = "New Conversation" /\ Cardinality(history) <= 2
                 THEN \* len(message) raises TypeError: the added AI message is not committed
                      /\ user_settings' = [user_settings EXCEPT ![user_id] = row]
                      /\ conversations' = opened
                      /\ messages' = with_user
                      /\ chat_last' = req @@ [http |-> 500, message |-> message,
                                              engine |-> response_data,
                                              body |-> [error |-> "Internal Server Error"]]
                      /\ UNCHANGED <<nusers, session_user>>
                 ELSE /\ user_settings' = [user_settings EXCEPT ![user_id] = row]
                      /\ conversations' = [opened EXCEPT ![conversation_id].title = new_title]
                      /\ messages' = SavedAnswer(with_user, conversation_id, response_data)
                      /\ chat_last' = req @@ [http |-> 200, message |-> message,
                                              engine |-> response_data,
                                              body |-> [response |-> text,
                                                        conversation_id |-> conversation_id]]
                      /\ UNCHANGED <<nusers, session_user>>

\* POST /api/chat with a message that is a str
Chat(message, named) == ChatJson(message, TRUE, named)

\* The grant branch of handle_permission for a user with a settings row,
\* the engine being called with the given permission_required value.
Regenerate(named, permission_required) ==
    LET row == user_settings[session_user]
        settings_dict == SettingsDict(row, permission_required)
        asked == UserMessagesOf(named)
        last_message == messages[MaxOf(asked)]
        req == Request("permission", named)
    IN  IF row # NoRow /\ asked # {}
        THEN \E choice \in TemplateChoices, choice2 \in SecondDraws[last_message.content] :
             LET response_data ==
                     EngineAnswers[last_message.content, settings_dict, choice, choice2]
                 text == response_data.result.text
             IN  /\ messages' = Append(messages, NewMessage(named, FALSE, text))
                 /\ chat_last' = req @@ [http |-> 200, granted |-> TRUE,
                                         message |-> last_message.content,
                                         engine |-> response_data,
                                         body |-> [response |-> text,
                                                   conversation_id |-> named]]
        ELSE /\ messages' = messages
             /\ chat_last' = req @@ [http |-> 200, granted |-> TRUE,
                                     body |-> [error |-> "Failed to process with permission",
                                               conversation_id |-> named]]

\* The denial branch of handle_permission.
Deny(named) ==
    /\ messages' = Append(messages, NewMessage(named, FALSE, DenialText))
    /\ chat_last' = Request("permission", named)
                    @@ [http |-> 200, granted |-> FALSE,
                        body |-> [response |-> DenialText, conversation_id |-> named]]

\* handle_permission passing the user's stored permission_required on a grant.
HandlePermissionWithStoredFlag(permission_granted, named) ==
    IF session_user = 0
    THEN /\ chat_last' = Request("permission", named)
                         @@ [http |-> 401, body |-> [error |-> "User not logged in"]]
         /\ UNCHANGED <<nusers, session_user, user_settings, conversations, messages>>
    ELSE /\ IF permission_granted
            THEN Regenerate(named, user_settings[session_user].permission_required)
            ELSE Deny(named)
         /\ UNCHANGED <<nusers, session_user, user_settings, conversations>>

\* POST /api/permission
HandlePermission(permission_granted, named) ==
    IF session_user = 0
    THEN /\ chat_last' = Request("permission", named)
                         @@ [http |-> 401, body |-> [error |-> "User not logged in"]]
         /\ UNCHANGED <<nusers, session_user, user_settings, conversations, messages>>
    ELSE /\ IF permission_granted
            THEN Regenerate(named, FALSE)
            ELSE Deny(named)
         /\ UNCHANGED <<nusers, session_user, user_settings, conversations>>

DoChat ==
    /\ Len(messages) + 2 <= MaxMessages
    /\ \E message \in ChatMessages, named \in ConversationIds :
          /\ named = NoId => Len(conversations) < MaxConversations
          /\ Chat(message, named)
    /\ UNCHANGED notChatVars

DoPermission ==
    /\ Len(messages) < MaxMessages
    /\ \E permission_granted \in BOOLEAN, named \in ConversationIds :
          HandlePermission(permission_granted, named)
    /\ UNCHANGED notChatVars

ChatNext ==
    \/ Register
    \/ Login
    \/ Logout
    \/ PostSettings
    \/ DoChat
    \/ DoPermission

ChatSpecInit == ChatIdle /\ CloneInit /\ CascadeIdle /\ ResponseIdle /\ ModelsIdle
    /\ NamesIdle /\ RequestsIdle /\ IntegratorIdle

SpecChat == ChatSpecInit /\ [][ChatNext]_vars

(***************************************************************************)
(* Claims about the response pipeline.                                     *)
(***************************************************************************)
\* What the permission check is to return for a prompt, written out keyword
\* by keyword in the order of the list.
ExpectedPermission(prompt) ==
    LET p == ToLower(prompt)
    IN  IF Contains(p, "disable safety")
        THEN [requires_permission |-> TRUE,
              reason |-> "disabling all safety features (only applies to critical systems)"]
        ELSE IF Contains(p, "turn off ethics")
        THEN [requires_permission |-> TRUE,
              reason |-> "disabling all ethics checks (only applies to critical systems)"]
        ELSE IF Contains(p, "hack")
        THEN [requires_permission |-> TRUE,
              reason |-> "attempting potentially harmful operations on external systems"]
        ELSE [requires_permission |-> FALSE, reason |-> ""]

\* The permission_required flag as the call sees it: TRUE when settings is
\* None or lacks the key.
FlagOf(settings) ==
    IF settings = NoSettings \/ "permission_required" \notin DOMAIN settings THEN TRUE
    ELSE settings["permission_required"]

\* C6: a prompt with a trigger keyword, with permission_required true or
\* absent, gets the permission-required envelope with that keyword's reason,
\* and neither intent classification nor template generation nor filtering
\* runs, so the envelope is a function of the reason alone; with the flag
\* false the value is never a permission-required envelope.
C6_PermissionEnvelope ==
    resp_last.op = "generate_response" =>
        LET out == resp_last.out
            expected == ExpectedPermission(req_prompt)
        IN  /\ (expected.requires_permission /\ FlagOf(req_settings)) =>
                  /\ out.result.status = "permission_required"
                  /\ out.result.requires_permission = TRUE
                  /\ out.result.permission_reason = expected.reason
                  /\ out.result.text = "This operation requires permission: "
                                       \o expected.reason \o ". Please confirm to proceed."
                  /\ out.stages = <<"check_permissions">>
            /\ ~FlagOf(req_settings) =>
                  /\ out.result.status # "permission_required"
                  /\ "requires_permission" \notin DOMAIN out.result

\* A question that holds "hack", asked with a settings dict that has no
\* permission_required key, was answered with the permission envelope.
C6_Witness ==
    /\ resp_last.op = "generate_response"
    /\ req_prompt = "Can you hack into a server?"
    /\ AnalyzeIntent(req_prompt) = "question"
    /\ req_settings # NoSettings
    /\ "permission_required" \notin DOMAIN req_settings
    /\ resp_last.out.result.status = "permission_required"

\* C7 as stated, with "clone" and "ssh" among the trigger keywords: every
\* prompt that holds a trigger keyword requires permission, and only those.
C7_CloneAndSshTrigger ==
    resp_last.op = "check_permissions" =>
        LET p == ToLower(req_prompt)
            triggers == {"disable safety", "turn off ethics", "hack", "clone", "ssh"}
        IN  resp_last.out.requires_permission = (\E k \in triggers : Contains(p, k))

\* C7, amended: the trigger keywords are "disable safety", "turn off ethics"
\* and "hack", in that order, matched as substrings of the lowercased
\* prompt; the value is (TRUE, reason of the first of them that occurs) or
\* (FALSE, "") when none occurs, whatever the settings argument is.
C7_FirstTriggerInListOrder ==
    resp_last.op = "check_permissions" =>
        /\ resp_last.out = ExpectedPermission(req_prompt)
        /\ \A s \in SettingsArgs : CheckPermissions(req_prompt, s) = resp_last.out

\* A prompt in capitals where "hack" comes before "disable safety" got the
\* reason of "disable safety", the earlier keyword of the list.
C7_Witness ==
    /\ resp_last.op = "check_permissions"
    /\ req_prompt = "HACK and Disable Safety now"
    /\ resp_last.out.requires_permission
    /\ resp_last.out.reason = SensitiveOperations[1].reason

IntentLabels ==
    {"greeting", "farewell", "question", "coding", "learning", "growth", "testing", "general"}

IntentOrder ==
    <<"greeting", "farewell", "question", "coding", "learning", "growth", "testing">>

\* A keyword of the intent occurs in the text (case-insensitively, as a
\* substring); a '?' counts for question.
KeywordOccurs(intent, text) ==
    \E i \in 1..Len(IntentKeywords) :
        /\ IntentKeywords[i].intent = intent
        /\ IntentBranch(i, text, ToLower(text))

\* C10: analyze_intent returns one label of the closed set; of the intents
\* whose keywords occur it returns the first in the order greeting >
\* farewell > question > coding > learning > growth > testing; it returns
\* general exactly when no keyword of any intent occurs.
C10_IntentPriority ==
    resp_last.op = "analyze_intent" =>
        LET label == resp_last.out
            hits == {r \in 1..Len(IntentOrder) : KeywordOccurs(IntentOrder[r], req_prompt)}
        IN  /\ label \in IntentLabels
            /\ (label = "general") <=> (hits = {})
            /\ \A r \in hits : (\A q \in hits : r <= q) => label = IntentOrder[r]

\* "Hello?" holds a greeting keyword and a '?', and was labelled greeting.
C10_Witness ==
    /\ resp_last.op = "analyze_intent"
    /\ KeywordOccurs("greeting", req_prompt)
    /\ KeywordOccurs("question", req_prompt)
    /\ resp_last.out = "greeting"

(***************************************************************************)
(* Claims about the chat and permission endpoints.                         *)
(***************************************************************************)
\* The request recorded in chat_last came from a logged-in user and named
\* a conversation that existed when it arrived.
NamedExisting ==
    /\ chat_last.user # 0
    /\ chat_last.named \in 1..chat_last.conversations_before

\* The content of the most recent user message that conversation id had
\* among the first n rows of the message table.
LastAsked(id, n) ==
    messages[MaxOf({i \in 1..n : messages[i].conversation_id = id /\ messages[i].is_user})].content

\* C8: a grant for a named conversation regenerates the response to its most
\* recent user message with permission_required forced to false, so the
\* response is not a permission-required envelope, and appends exactly one
\* AI message holding it; a denial generates nothing and appends exactly one
\* AI message holding the fixed denial text; the stored settings of the user
\* are as they were before the request.
C8_PermissionResolution ==
    (chat_last.op = "permission" /\ NamedExisting) =>
        /\ Len(messages) = chat_last.before + 1
        /\ chat_last.settings_before = user_settings
        /\ IF chat_last.granted
           THEN /\ chat_last.message = LastAsked(chat_last.named, chat_last.before)
                /\ \E choice \in TemplateChoices, choice2 \in TemplateChoices :
                      chat_last.engine =
                          EngineAnswers[chat_last.message,
                              [content_filter_enabled |->
                                   user_settings[chat_last.user].content_filter_enabled,
                               permission_required |-> FALSE],
                              choice, choice2]
                /\ chat_last.engine.result.status # "permission_required"
                /\ "requires_permission" \notin DOMAIN chat_last.engine.result
                /\ messages[Len(messages)] =
                       [conversation_id |-> chat_last.named, is_user |-> FALSE,
                        content |-> chat_last.engine.result.text]
                /\ chat_last.body.response = chat_last.engine.result.text
           ELSE /\ "engine" \notin DOMAIN chat_last
                /\ messages[Len(messages)] =
                       [conversation_id |-> chat_last.named, is_user |-> FALSE,
                        content |-> DenialText]
                /\ chat_last.body.response = DenialText

\* A grant by a user whose stored permission_required is true, for a
\* conversation whose last user message holds "hack", appended a regular
\* response.
C8_Witness ==
    /\ chat_last.op = "permission"
    /\ NamedExisting
    /\ chat_last.granted
    /\ user_settings[chat_last.user].permission_required
    /\ ExpectedPermission(chat_last.message).requires_permission
    /\ chat_last.engine.result.status = "success"
    /\ Len(messages) = chat_last.before + 1

\* The chat request recorded in chat_last came from a logged-in user and
\* named no conversation or a conversation of that user.
ChatAccepted ==
    /\ chat_last.op = "chat"
    /\ chat_last.user # 0
    /\ \/ chat_last.named = NoId
       \/ /\ chat_last.named \in 1..chat_last.conversations_before
          /\ conversations[chat_last.named].user_id = chat_last.user

NlpUnsafePatterns ==
    << << {"hack", "exploit", "attack", "compromise"},
          {"system", "server", "computer", "network"} >>,
       << {"illegal", "unlawful"}, {"activity", "operation", "action"} >>,
       << {"bypass", "circumvent"}, {"security", "protection", "filter"} >>,
       << {"steal", "obtain"}, {"password", "credentials"} >>,
       << {"steal", "obtain"}, {"sensitive"}, {"data"} >>,
       << {"launch", "execute"}, {"malware", "virus", "ransomware"} >> >>

NlpRefusal ==
    "I apologize, but I cannot provide that information or perform that action due to safety constraints."

\* NLPProcessor.filter_unsafe_content on a str (re.search does not raise on one)
NlpFilterUnsafeContent(text) ==
    IF \E p \in 1..Len(NlpUnsafePatterns) : Search(NlpUnsafePatterns[p], text)
    THEN NlpRefusal
    ELSE text

\* The texts the filters are applied to.
FilterTexts ==
    Prompts \cup
    { "launch malware",
      "Execute   VIRUS now",
      "launch\nransomware",
      "launchmalware",
      "launch the malware",
      "relaunch malwares",
      "attack critical system",
      "Compromise Protected\tNetwork",
      "attack critical",
      "attack system",
      "hack server",
      "exploit   Computer",
      "illegal activity",
      "bypass security",
      "steal password",
      "obtain sensitive data",
      "obtain sensitive",
      "circumvent the filter",
      Refusal,
      NlpRefusal }

FilterInit ==
    /\ req_prompt \in FilterTexts
    /\ req_settings = NoSettings
    /\ resp_last = [op |-> "none"]

DoFilterUnsafeContent ==
    /\ resp_last' = [op |-> "filter_unsafe_content", filter |-> "engine", again |-> FALSE,
                     text |-> req_prompt, out |-> FilterUnsafeContent(req_prompt)]
    /\ UNCHANGED <<req_prompt, req_settings>>
    /\ UNCHANGED notResponseVars

DoNlpFilterUnsafeContent ==
    /\ resp_last' = [op |-> "filter_unsafe_content", filter |-> "nlp", again |-> FALSE,
                     text |-> req_prompt, out |-> NlpFilterUnsafeContent(req_prompt)]
    /\ UNCHANGED <<req_prompt, req_settings>>
    /\ UNCHANGED notResponseVars

\* The filter that produced a text is applied to that text.
DoFilterAgain ==
    /\ resp_last.op = "filter_unsafe_content"
    /\ resp_last' = [resp_last EXCEPT
                        !.again = TRUE,
                        !.text = resp_last.out,
                        !.out = IF resp_last.filter = "engine"
                                THEN FilterUnsafeContent(resp_last.out)
                                ELSE NlpFilterUnsafeContent(resp_last.out)]
    /\ UNCHANGED <<req_prompt, req_settings>>
    /\ UNCHANGED notResponseVars

FilterNext ==
    \/ DoFilterUnsafeContent
    \/ DoNlpFilterUnsafeContent
    \/ DoFilterAgain

FilterSpecInit == FilterInit /\ CloneInit /\ CascadeIdle /\ ChatIdle /\ ModelsIdle
    /\ NamesIdle /\ RequestsIdle /\ IntegratorIdle

SpecFilter == FilterSpecInit /\ [][FilterNext]_vars

(***************************************************************************)
(* Claims about the content filters.                                       *)
(***************************************************************************)
\* Some pattern of the filter that made resp_last matches the text.
PatternMatches(text) ==
    IF resp_last.filter = "engine"
    THEN \E p \in 1..Len(UnsafePatterns) : Search(UnsafePatterns[p], text)
    ELSE \E p \in 1..Len(NlpUnsafePatterns) : Search(NlpUnsafePatterns[p], text)

RefusalOf(filter) == IF filter = "engine" THEN Refusal ELSE NlpRefusal

\* C11: each filter returns its text unchanged when none of its patterns
\* matches the text, case-insensitively, and its one fixed refusal sentence
\* when some pattern matches; it returns nothing else, and a text other than
\* the refusal sentence comes back unchanged only when no pattern matches it
\* and as the refusal only when some pattern matches it.
C11_UnchangedOrRefusal ==
    resp_last.op = "filter_unsafe_content" =>
        /\ resp_last.out = IF PatternMatches(resp_last.text)
                           THEN RefusalOf(resp_last.filter)
                           ELSE resp_last.text
        /\ resp_last.text # RefusalOf(resp_last.filter) =>
              /\ resp_last.out = resp_last.text <=> ~PatternMatches(resp_last.text)
              /\ resp_last.out = RefusalOf(resp_last.filter)
                    <=> PatternMatches(resp_last.text)

\* A text in capitals and with several blanks between the two words was
\* replaced by the refusal of the engine's filter.
C11_Witness ==
    /\ resp_last.op = "filter_unsafe_content"
    /\ resp_last.filter = "engine"
    /\ ~resp_last.again
    /\ resp_last.text = "Execute   VIRUS now"
    /\ resp_last.out = Refusal

\* C13: applying a filter to its own output gives that output again; the
\* refusal sentence matches no pattern of its filter.
C13_Idempotent ==
    /\ (resp_last.op = "filter_unsafe_content" /\ resp_last.again) =>
           resp_last.out = resp_last.text
    /\ resp_last.op = "filter_unsafe_content" =>
           ~PatternMatches(RefusalOf(resp_last.filter))

\* The refusal that the engine's filter gave was filtered again and came
\* back unchanged.
C13_Witness ==
    /\ resp_last.op = "filter_unsafe_content"
    /\ resp_last.filter = "engine"
    /\ resp_last.again
    /\ req_prompt # Refusal
    /\ resp_last.text = Refusal
    /\ resp_last.out = Refusal

(***************************************************************************)
(* Claims about the filtered and the templated responses.                  *)
(***************************************************************************)
\* settings.get("content_filter_enabled", True) of the request
FilterFlagOf(settings) ==
    IF settings = NoSettings \/ "content_filter_enabled" \notin DOMAIN settings THEN TRUE
    ELSE settings["content_filter_enabled"]

\* C12 as stated, with the patterns of NLPProcessor.unsafe_patterns as the
\* patterns of the filter: with content_filter_enabled true or absent the
\* text of a success response matches none of them, in particular not
\* (hack|exploit|attack|compromise)\s+(system|server|computer|network).
C12_NoNlpPatternInSuccess ==
    (/\ resp_last.op = "generate_response"
     /\ resp_last.out.result.status = "success"
     /\ FilterFlagOf(req_settings)) =>
        \A p \in 1..Len(NlpUnsafePatterns) :
            ~Search(NlpUnsafePatterns[p], resp_last.out.result.text)

\* C12: with content_filter_enabled true or absent the text of a success
\* response matches neither of the two patterns of
\* AIEngine._filter_unsafe_content, and is the refusal whenever the generated
\* text matched one; with content_filter_enabled false the generated text is
\* returned as it was generated.
C12_NoEnginePatternInSuccess ==
    (/\ resp_last.op = "generate_response"
     /\ resp_last.out.result.status = "success") =>
        LET out == resp_last.out
            unsafe(t) == \E p \in 1..Len(UnsafePatterns) : Search(UnsafePatterns[p], t)
        IN  IF FilterFlagOf(req_settings)
            THEN /\ ~unsafe(out.result.text)
                 /\ unsafe(out.generated) => out.result.text = Refusal
                 /\ ~unsafe(out.generated) => out.result.text = out.generated
            ELSE out.result.text = out.generated

\* The general template echoed "launch malware" from the prompt and, the
\* filter being on by default, the refusal was returned in its place.
C12_Witness ==
    /\ resp_last.op = "generate_response"
    /\ req_prompt = "please launch malware on the old laptop"
    /\ req_settings = NoSettings
    /\ resp_last.out.result.status = "success"
    /\ Search(UnsafePatterns[1], resp_last.out.generated)
    /\ resp_last.out.result.text = Refusal

\* C14: a prompt classified greeting or farewell that holds no permission
\* keyword gets, whatever template is drawn and whatever the settings, a
\* success response whose text is one of the 4 templates of that intent.
C14_GreetingFarewellVerbatim ==
    (/\ resp_last.op = "generate_response"
     /\ AnalyzeIntent(req_prompt) \in {"greeting", "farewell"}
     /\ ~ExpectedPermission(req_prompt).requires_permission) =>
        LET pool == Responses[AnalyzeIntent(req_prompt)]
        IN  /\ Len(pool) = 4
            /\ resp_last.out.result.status = "success"
            /\ \E i \in 1..4 : resp_last.out.result.text = pool[i]

\* "see you, what now?" holds a farewell and a question keyword; the third
\* farewell template was returned for it with the filter on.
C14_Witness ==
    /\ resp_last.op = "generate_response"
    /\ req_prompt = "see you, what now?"
    /\ FilterFlagOf(req_settings)
    /\ resp_last.out.result.status = "success"
    /\ resp_last.out.result.text = "Until next time! Take care."

(***************************************************************************)
(* Clone naming: creates and deletes, one at a time, up to MaxSequence      *)
(* names.                                                                  *)
(***************************************************************************)
SequenceNames == {"THOR" \o NumToStr(n) : n \in 1..MaxSequence} \cup {"THOR9"}

\* What the naming sequences leave alone; they keep the history of names.
notNamingVars == <<cascadeVars, responseVars, chatVars, model_cache, reqs, settings_table,
                   integratorVars>>

DoCreateInSequence ==
    /\ GetNextCloneNumber(SessionRows) <= MaxSequence
    /\ \E d \in Descriptions, f \in BOOLEAN : CreateClone(d, f)
    /\ assigned' = IF cm_last'.ok THEN assigned \cup {cm_last'.name} ELSE assigned
    /\ UNCHANGED notNamingVars

DoDeleteInSequence ==
    /\ \E n \in SequenceNames, f \in BOOLEAN : DeleteClone(n, f)
    /\ UNCHANGED assigned
    /\ UNCHANGED notNamingVars

NamingNext ==
    \/ DoCreateInSequence
    \/ DoDeleteInSequence

SpecNaming == CloneSpecInit /\ [][NamingNext]_vars

\* The number a clone name ends with.
SuffixOf(name) == StrToNum(RemoveAll(name, "THOR"))

\* The largest suffix among rows, 0 when there is no row.
LargestSuffix(rows) ==
    IF Len(rows) = 0 THEN 0
    ELSE MaxOf({SuffixOf(rows[i].clone_name) : i \in 1..Len(rows)})

EngineCloneResult(last) ==
    CASE last.op = "create" ->
            IF last.ok
            THEN [status |-> "success", message |-> "Created clone " \o last.name]
            ELSE [status |-> "error", message |-> "Failed to create clone"]
      [] last.op = "activate" ->
            IF last.ok
            THEN [status |-> "success", message |-> "Activated clone " \o last.name]
            ELSE [status |-> "error", message |-> "Failed to activate clone " \o last.name]
      [] last.op = "deactivate" ->
            IF last.ok
            THEN [status |-> "success", message |-> "Deactivated all clones"]
            ELSE [status |-> "error", message |-> "Failed to deactivate clones"]
      [] last.op = "update" ->
            IF last.ok
            THEN [status |-> "success", message |-> "Updated clone " \o last.name]
            ELSE [status |-> "error", message |-> "Failed to update clone " \o last.name]

\* The capabilities a clone has after cur was updated with the keys of upd:
\* every key of upd with the value of upd, every other key of cur as it was.
ShallowMerged(new, cur, upd) ==
    /\ DOMAIN new = (DOMAIN cur) \cup (DOMAIN upd)
    /\ \A k \in DOMAIN upd : new[k] = upd[k]
    /\ \A k \in (DOMAIN cur) \ (DOMAIN upd) : new[k] = cur[k]

\* C16: an update_clone that succeeds on an existing clone replaces the
\* description when one is given and merges the given capabilities key by
\* key at the top level; the clone's name, base_version and is_active flag
\* and every other clone stay as the session held them before the call.  On a
\* name that matches no clone it returns False (status error from the
\* engine) and changes nothing.
C16_UpdateFrame ==
    [][cm_last'.op = "update" =>
          LET before == SessionRows
              i == FindClone(before, cm_last'.name)
          IN  IF i = 0
              THEN /\ ~cm_last'.ok
                   /\ EngineCloneResult(cm_last').status = "error"
                   /\ UNCHANGED <<clones, sess, files>>
              ELSE IF ~cm_last'.ok THEN clones' = clones
              ELSE /\ EngineCloneResult(cm_last').status = "success"
                   /\ Len(clones') = Len(before)
                   /\ \A j \in 1..Len(before) : j # i => clones'[j] = before[j]
                   /\ clones'[i].clone_name = before[i].clone_name
                   /\ clones'[i].base_version = before[i].base_version
                   /\ clones'[i].is_active = before[i].is_active
                   /\ clones'[i].description =
                         IF cm_last'.description # "" THEN cm_last'.description
                         ELSE before[i].description
                   /\ IF cm_last'.capabilities # NoUpdate
                      THEN ShallowMerged(clones'[i].capabilities, before[i].capabilities,
                                         cm_last'.capabilities)
                      ELSE clones'[i].capabilities = before[i].capabilities
    ]_vars

\* THOR1, active, was given a description and capabilities in one update:
\* "limits" was replaced as a whole, "mode" kept, "extra" added, and THOR2
\* is as it was created.
C16_Witness ==
    /\ cm_last.op = "update"
    /\ cm_last.ok
    /\ cm_last.name = "THOR1"
    /\ cm_last.description = "d2"
    /\ cm_last.capabilities # NoUpdate
    /\ Len(clones) = 2
    /\ clones[1] = [clone_name |-> "THOR1", base_version |-> "1.0", description |-> "d2",
                    capabilities |-> [mode |-> "base", limits |-> [cpu |-> "4"],
                                      extra |-> "on"],
                    is_active |-> TRUE]
    /\ clones[2] = [clone_name |-> "THOR2", base_version |-> "1.0", description |-> "d1",
                    capabilities |-> BaseCaps, is_active |-> FALSE]

ApiAnswer(route, logged_in, inp, http, body, calls) ==
    [cap |-> route, logged_in |-> logged_in, inp |-> inp, http |-> http,
     body |-> body, calls |-> calls]

NotLoggedIn == [error |-> "User not logged in"]

\* AIEngine.__init__ makes a clone manager along with a provider.
ManagerAvailable == thor_ai \/ anthropic_ai

Unavailable == [status |-> "error", message |-> "Clone management not available"]

\* A create-clone endpoint that does not look at the session.
ThorCreateCloneRouteWithoutLogin(logged_in, description, dbFails) ==
    LET inp == [description |-> description]
    IN  IF description = ""
        THEN /\ cap_last' = ApiAnswer("create_clone", logged_in, inp, 400,
                                      [error |-> "Clone description is required"], <<>>)
             /\ UNCHANGED cloneVars
        ELSE IF ~ManagerAvailable
        THEN /\ cap_last' = ApiAnswer("create_clone", logged_in, inp, 200, Unavailable,
                                      <<"create_clone">>)
             /\ UNCHANGED cloneVars
        ELSE /\ CreateClone(description, dbFails)
             /\ cap_last' = ApiAnswer("create_clone", logged_in, inp, 200,
                                      EngineCloneResult(cm_last'), <<"create_clone">>)

\* POST /api/thor/create-clone {description}
ThorCreateCloneRoute(logged_in, description, dbFails) ==
    LET inp == [description |-> description]
    IN  IF ~logged_in
        THEN /\ cap_last' = ApiAnswer("create_clone", logged_in, inp, 401, NotLoggedIn, <<>>)
             /\ UNCHANGED cloneVars
        ELSE IF description = ""
        THEN /\ cap_last' = ApiAnswer("create_clone", logged_in, inp, 400,
                                      [error |-> "Clone description is required"], <<>>)
             /\ UNCHANGED cloneVars
        ELSE IF ~ManagerAvailable
        THEN /\ cap_last' = ApiAnswer("create_clone", logged_in, inp, 200, Unavailable,
                                      <<"create_clone">>)
             /\ UNCHANGED cloneVars
        ELSE /\ CreateClone(description, dbFails)
             /\ cap_last' = ApiAnswer("create_clone", logged_in, inp, 200,
                                      EngineCloneResult(cm_last'), <<"create_clone">>)

\* GET /api/thor/list-clones
ThorListClonesRoute(logged_in) ==
    /\ cap_last' =
          IF ~logged_in
          THEN ApiAnswer("list_clones", logged_in, <<>>, 401, NotLoggedIn, <<>>)
          ELSE IF ~ManagerAvailable
          THEN ApiAnswer("list_clones", logged_in, <<>>, 200, Unavailable, <<"list_clones">>)
          ELSE ApiAnswer("list_clones", logged_in, <<>>, 200,
                         [status |-> "success", count |-> Len(SessionRows)],
                         <<"list_clones">>)
    /\ UNCHANGED cloneVars

\* POST /api/thor/activate-clone {clone_name}
ThorActivateCloneRoute(logged_in, clone_name, dbFails) ==
    LET inp == [clone_name |-> clone_name]
    IN  IF ~logged_in
        THEN /\ cap_last' = ApiAnswer("activate_clone", logged_in, inp, 401, NotLoggedIn, <<>>)
             /\ UNCHANGED cloneVars
        ELSE IF clone_name = ""
        THEN /\ cap_last' = ApiAnswer("activate_clone", logged_in, inp, 400,
                                      [error |-> "Clone name is required"], <<>>)
             /\ UNCHANGED cloneVars
        ELSE IF ~ManagerAvailable
        THEN /\ cap_last' = ApiAnswer("activate_clone", logged_in, inp, 200, Unavailable,
                                      <<"activate_clone">>)
             /\ UNCHANGED cloneVars
        ELSE /\ ActivateClone(clone_name, dbFails)
             /\ cap_last' = ApiAnswer("activate_clone", logged_in, inp, 200,
                                      EngineCloneResult(cm_last'), <<"activate_clone">>)

\* POST /api/thor/deactivate-clones
ThorDeactivateClonesRoute(logged_in, dbFails) ==
    IF ~logged_in
    THEN /\ cap_last' = ApiAnswer("deactivate_clones", logged_in, <<>>, 401, NotLoggedIn, <<>>)
         /\ UNCHANGED cloneVars
    ELSE IF ~ManagerAvailable
    THEN /\ cap_last' = ApiAnswer("deactivate_clones", logged_in, <<>>, 200, Unavailable,
                                  <<"deactivate_clones">>)
         /\ UNCHANGED cloneVars
    ELSE /\ DeactivateAllClones(dbFails)
         /\ cap_last' = ApiAnswer("deactivate_clones", logged_in, <<>>, 200,
                                  EngineCloneResult(cm_last'), <<"deactivate_clones">>)

\* POST /api/thor/update-clone {clone_name, updates}; updates is empty when it
\* holds neither a description nor capabilities.
ThorUpdateCloneRoute(logged_in, clone_name, desc, caps, dbFails) ==
    LET inp == [clone_name |-> clone_name, description |-> desc, capabilities |-> caps]
    IN  IF ~logged_in
        THEN /\ cap_last' = ApiAnswer("update_clone", logged_in, inp, 401, NotLoggedIn, <<>>)
             /\ UNCHANGED cloneVars
        ELSE IF clone_name = ""
        THEN /\ cap_last' = ApiAnswer("update_clone", logged_in, inp, 400,
                                      [error |-> "Clone name is required"], <<>>)
             /\ UNCHANGED cloneVars
        ELSE IF desc = "" /\ caps = NoUpdate
        THEN /\ cap_last' = ApiAnswer("update_clone", logged_in, inp, 400,
                                      [error |-> "Updates are required"], <<>>)
             /\ UNCHANGED cloneVars
        ELSE IF ~ManagerAvailable
        THEN /\ cap_last' = ApiAnswer("update_clone", logged_in, inp, 200, Unavailable,
                                      <<"update_clone">>)
             /\ UNCHANGED cloneVars
        ELSE /\ UpdateClone(clone_name, desc, caps, dbFails)
             /\ cap_last' = ApiAnswer("update_clone", logged_in, inp, 200,
                                      EngineCloneResult(cm_last'), <<"update_clone">>)

\* ModelCache.model_name is unique: the commit of a second row with the name raises.
CacheHas(name) == \E i \in 1..Len(model_cache) : model_cache[i].model_name = name

\* The integrator returned a path: the row is added and committed.
RecordModel(route, inp, name, source_url, calls) ==
    IF CacheHas(name)
    THEN /\ cap_last' = ApiAnswer(route, TRUE, inp, 500, [error |-> "IntegrityError"], calls)
         /\ UNCHANGED model_cache
    ELSE /\ cap_last' = ApiAnswer(route, TRUE, inp, 200, [success |-> TRUE], calls)
         /\ model_cache' = Append(model_cache,
                                  [model_name |-> name, source_url |-> source_url])

\* What the integrator did with a download or a clone: it returned a path,
\* returned None, or raised.
Outcomes == {"path", "none", "raises"}

\* POST /api/models/download {model_name, source, repo_url}
DownloadModelRoute(logged_in, model_name, source, repo_url, outcome) ==
    LET inp == [model_name |-> model_name, source |-> source, repo_url |-> repo_url]
        calls == <<"download_from_" \o source>>
        failed == [error |-> "Failed to download model"]
    IN  IF ~logged_in
        THEN /\ cap_last' = ApiAnswer("download_model", logged_in, inp, 401, NotLoggedIn, <<>>)
             /\ UNCHANGED model_cache
        ELSE IF model_name = ""
        THEN /\ cap_last' = ApiAnswer("download_model", logged_in, inp, 400,
                                      [error |-> "Model name is required"], <<>>)
             /\ UNCHANGED model_cache
        ELSE IF source \notin {"huggingface", "github"}
        THEN /\ cap_last' = ApiAnswer("download_model", logged_in, inp, 400,
                                      [error |-> "Invalid source"], <<>>)
             /\ UNCHANGED model_cache
        ELSE IF source = "github" /\ repo_url = ""
        THEN /\ cap_last' = ApiAnswer("download_model", logged_in, inp, 400,
                                      [error |-> "Repository URL is required"], <<>>)
             /\ UNCHANGED model_cache
        ELSE IF outcome # "path"
        THEN /\ cap_last' = ApiAnswer("download_model", logged_in, inp, 500, failed, calls)
             /\ UNCHANGED model_cache
        ELSE RecordModel("download_model", inp, model_name,
                         IF source = "github" THEN repo_url
                         ELSE "https://huggingface.co/" \o model_name,
                         calls)

\* POST /api/models/clone {original_model, new_model_name, modifications}
CloneModelRoute(logged_in, original_model, new_model_name, outcome) ==
    LET inp == [original_model |-> original_model, new_model_name |-> new_model_name]
        calls == <<"create_model_clone">>
    IN  IF ~logged_in
        THEN /\ cap_last' = ApiAnswer("clone_model", logged_in, inp, 401, NotLoggedIn, <<>>)
             /\ UNCHANGED model_cache
        ELSE IF original_model = "" \/ new_model_name = ""
        THEN /\ cap_last' = ApiAnswer("clone_model", logged_in, inp, 400,
                                      [error |-> "Original model and new model name are required"],
                                      <<>>)
             /\ UNCHANGED model_cache
        ELSE IF outcome # "path"
        THEN /\ cap_last' = ApiAnswer("clone_model", logged_in, inp, 500,
                                      [error |-> "Failed to clone model"], calls)
             /\ UNCHANGED model_cache
        ELSE RecordModel("clone_model", inp, new_model_name,
                         "cloned from " \o original_model, calls)

(***************************************************************************)
(* The API as a whole.  A behaviour exercises one group of endpoints: the  *)
(* chat endpoints, the capability endpoints, the clone endpoints or the    *)
(* model endpoints, the tables of the other groups staying empty.          *)
(***************************************************************************)
ModelNames == {"", "m1", "m2"}
Sources == {"huggingface", "github", "ftp"}
RepoUrls == {"", "https://github.com/o/r"}
ApiCloneNames == {"", "THOR1", "THOR9"}
ApiUpdates == {<<"", NoUpdate>>, <<"d2", NoUpdate>>} \cup {<<"", c>> : c \in CapUpdates}
ApiChatMessages == {"", "hello"}

NoOtherAnswer == cap_last = [cap |-> "none"]

apiFrameOfClones == <<thor_ai, anthropic_ai, responseVars, chatVars, model_cache,
                      assigned, reqs, settings_table, integratorVars>>
apiFrameOfModels == <<thor_ai, anthropic_ai, responseVars, chatVars, cloneVars,
                      assigned, reqs, settings_table, integratorVars>>

ApiRegister ==
    /\ CloneInit /\ ModelsIdle /\ NoOtherAnswer
    /\ Register

ApiLogin ==
    /\ CloneInit /\ ModelsIdle /\ NoOtherAnswer
    /\ Login

ApiLogout ==
    /\ CloneInit /\ ModelsIdle /\ NoOtherAnswer
    /\ Logout

ApiChat ==
    /\ CloneInit /\ ModelsIdle /\ NoOtherAnswer
    /\ Len(messages) + 2 <= MaxMessages
    /\ \E message \in ApiChatMessages, named \in ConversationIds :
          /\ named = NoId => Len(conversations) < MaxConversations
          /\ Chat(message, named)
    /\ UNCHANGED notChatVars

ApiPermission ==
    /\ CloneInit /\ ModelsIdle /\ NoOtherAnswer
    /\ DoPermission

ApiCapabilityEndpoints ==
    /\ ChatIdle /\ CloneInit /\ ModelsIdle
    /\ CascadeNext

ApiCreateClone ==
    /\ ChatIdle /\ ModelsIdle
    /\ Len(SessionRows) < MaxApiClones
    /\ \E l \in BOOLEAN, d \in {"", "d1"}, f \in BOOLEAN : ThorCreateCloneRoute(l, d, f)
    /\ UNCHANGED apiFrameOfClones

ApiListClones ==
    /\ ChatIdle /\ ModelsIdle
    /\ \E l \in BOOLEAN : ThorListClonesRoute(l)
    /\ UNCHANGED apiFrameOfClones

ApiActivateClone ==
    /\ ChatIdle /\ ModelsIdle
    /\ \E l \in BOOLEAN, n \in ApiCloneNames, f \in BOOLEAN :
          ThorActivateCloneRoute(l, n, f)
    /\ UNCHANGED apiFrameOfClones

ApiDeactivateClones ==
    /\ ChatIdle /\ ModelsIdle
    /\ \E l \in BOOLEAN, f \in BOOLEAN : ThorDeactivateClonesRoute(l, f)
    /\ UNCHANGED apiFrameOfClones

ApiUpdateClone ==
    /\ ChatIdle /\ ModelsIdle
    /\ \E l \in BOOLEAN, n \in ApiCloneNames, u \in ApiUpdates, f \in BOOLEAN :
          ThorUpdateCloneRoute(l, n, u[1], u[2], f)
    /\ UNCHANGED apiFrameOfClones

\* The end of a clone request: the session is removed.
ApiEndRequest ==
    /\ EndRequest
    /\ UNCHANGED notCloneVars

ApiDownloadModel ==
    /\ ChatIdle /\ CloneInit
    /\ \E l \in BOOLEAN, m \in ModelNames, s \in Sources, u \in RepoUrls, o \in Outcomes :
          DownloadModelRoute(l, m, s, u, o)
    /\ UNCHANGED apiFrameOfModels

ApiCloneModel ==
    /\ ChatIdle /\ CloneInit
    /\ \E l \in BOOLEAN, m \in ModelNames, n \in ModelNames, o \in Outcomes :
          CloneModelRoute(l, m, n, o)
    /\ UNCHANGED apiFrameOfModels

ApiNext ==
    \/ ApiRegister
    \/ ApiLogin
    \/ ApiLogout
    \/ ApiChat
    \/ ApiPermission
    \/ ApiCapabilityEndpoints
    \/ ApiCreateClone
    \/ ApiListClones
    \/ ApiActivateClone
    \/ ApiDeactivateClones
    \/ ApiUpdateClone
    \/ ApiEndRequest
    \/ ApiDownloadModel
    \/ ApiCloneModel

ApiSpecInit == CascadeInit /\ CloneInit /\ ResponseIdle /\ ChatIdle /\ ModelsIdle
    /\ NamesIdle /\ RequestsIdle /\ IntegratorIdle

SpecApi == ApiSpecInit /\ [][ApiNext]_vars

(***************************************************************************)
(* The chat endpoint on messages that are not strings.                     *)
(***************************************************************************)
JsonRegister == Register

JsonLogin == Login

JsonLogout == Logout

JsonChat ==
    /\ Len(messages) + 2 <= MaxJsonMessages
    /\ \E m \in JsonMessages, named \in ConversationIds :
          /\ named = NoId => Len(conversations) < MaxConversations
          /\ ChatJson(m[1], m[2], named)
    /\ UNCHANGED notChatVars

JsonPermission ==
    /\ Len(messages) < MaxJsonMessages
    /\ \E permission_granted \in BOOLEAN, named \in ConversationIds :
          HandlePermission(permission_granted, named)
    /\ UNCHANGED notChatVars

JsonNext ==
    \/ JsonRegister
    \/ JsonLogin
    \/ JsonLogout
    \/ JsonChat
    \/ JsonPermission

JsonSpecInit == ChatIdle /\ CloneInit /\ CascadeIdle /\ ResponseIdle /\ ModelsIdle
    /\ NamesIdle /\ RequestsIdle /\ IntegratorIdle

SpecJsonChat == JsonSpecInit /\ [][JsonNext]_vars

\* C20 as stated: when generate_response caught an exception, its envelope
\* holds the apology with the exception's message, and the chat endpoint
\* answers 200 with that text and the conversation id and nothing else, the
\* text being stored as the conversation's newest AI message.
C20_ErrorStoredAsReply ==
    (/\ chat_last # NoRequest
     /\ chat_last.op = "chat"
     /\ "engine" \in DOMAIN chat_last
     /\ chat_last.engine.result.status = "error") =>
        /\ chat_last.engine.result.text
               = "I'm sorry, I encountered an error: " \o IntHasNoLower
        /\ chat_last.http = 200
        /\ DOMAIN chat_last.body = {"response", "conversation_id"}
        /\ chat_last.body.response = chat_last.engine.result.text
        /\ Len(messages) = chat_last.before + 2
        /\ messages[Len(messages)]
               = NewMessage(chat_last.body.conversation_id, FALSE, chat_last.engine.result.text)

(***************************************************************************)
(* Claims about the API as a whole.                                        *)
(***************************************************************************)
\* The persisted records: users, settings, conversations, messages, clones
\* and the model cache.
persisted == <<nusers, user_settings, conversations, messages, clones, model_cache>>

CapabilityRoutes ==
    {"generate_code", "analyze_code", "create_dataset", "network_scan", "suggest_improvements"}

\* The chat answer r is to a request that held no message, or that named a
\* conversation that does not exist or is another user's.
ChatLacksField(r) ==
    /\ r.op = "chat"
    /\ \/ "message" \in DOMAIN r /\ r.message = ""
       \/ /\ r.named # NoId
          /\ ~(/\ r.named \in 1..r.conversations_before
               /\ conversations[r.named].user_id = r.user)

\* The answer r of an /api/thor or /api/models endpoint is to a request that
\* lacked a field the endpoint requires.
ApiLacksField(r) ==
    CASE r.cap \in CapabilityRoutes \ {"suggest_improvements"} -> r.inp.text = ""
      [] r.cap = "create_clone" -> r.inp.description = ""
      [] r.cap = "activate_clone" -> r.inp.clone_name = ""
      [] r.cap = "update_clone" ->
            \/ r.inp.clone_name = ""
            \/ r.inp.description = "" /\ r.inp.capabilities = NoUpdate
      [] r.cap = "download_model" -> r.inp.model_name = ""
      [] r.cap = "clone_model" -> r.inp.original_model = "" \/ r.inp.new_model_name = ""
      [] OTHER -> FALSE

\* C18 as stated: a request that lacks a required field, or a chat request
\* that names an invalid conversation, is answered with a 4xx status and
\* changes no persisted record.
C18_MissingFieldRejected ==
    [][/\ (chat_last' # chat_last /\ ChatLacksField(chat_last')) =>
              /\ chat_last'.http \in 400..499
              /\ UNCHANGED persisted
       /\ (cap_last' # cap_last /\ ApiLacksField(cap_last')) =>
              /\ cap_last'.http \in 400..499
              /\ UNCHANGED persisted
    ]_vars

C26_MissingNameLeavesFlags ==
    [][(/\ cm_last'.op = "activate"
        /\ ~cm_last'.db_failed
        /\ FindClone(SessionRows, cm_last'.name) = 0) =>
           /\ ~cm_last'.ok
           /\ clones' = clones
           /\ SessionRows' = SessionRows
    ]_vars

\* C28 as stated: a model JSON file exists for a name exactly when a clone
\* record with that name exists.
C28_FileIffRecord ==
    files = {clones[i].clone_name : i \in 1..Len(clones)}

\* C29 as stated: a create never gives a name that an earlier create gave,
\* also when the clone that held it has been deleted since.
C29_NameNeverReused ==
    [][(/\ cm_last'.op = "create"
        /\ cm_last'.ok
        /\ clones' # clones) =>
           cm_last'.name \notin assigned
    ]_vars

(***************************************************************************)
(* The settings records under interleaved requests.  A request is in a     *)
(* slot of reqs: [route, user, pc, form]; register has committed the user  *)
(* row and is about to insert the settings row, the other routes have      *)
(* looked for the user's settings row and insert one if they found none.   *)
(***************************************************************************)
IdleRequest == [route |-> "none", user |-> 0, pc |-> "idle", form |-> [none |-> TRUE]]

\* GET: no form
NoForm == [none |-> TRUE]

\* The POST /settings forms: the boxes ticked.
SettingsForms ==
    {NoForm,
     [content_filter |-> FALSE, ethics_check |-> TRUE, permission_required |-> FALSE]}

\* UserSettings(user_id=u): the column defaults
NewSettings(u) ==
    [user_id |-> u, content_filter_enabled |-> TRUE, ethics_check_enabled |-> TRUE,
     permission_required |-> TRUE]

\* UserSettings.query.filter_by(user_id=u).first() finds a row
HasSettings(table, u) == \E i \in 1..Len(table) : table[i].user_id = u

\* An insert into a table whose user_id column is not unique.
InsertSettingsUnchecked(table, u) == [table |-> Append(table, NewSettings(u)), raised |-> FALSE]

\* db.session.add(settings); db.session.commit(): user_id is unique, the
\* commit raises IntegrityError when the user has a row.
InsertSettings(table, u) ==
    IF HasSettings(table, u)
    THEN [table |-> table, raised |-> TRUE]
    ELSE [table |-> Append(table, NewSettings(u)), raised |-> FALSE]

\* settings(): the row of u takes the values of the form
UpdateFromForm(table, u, form) ==
    [i \in 1..Len(table) |->
        IF table[i].user_id = u
        THEN [table[i] EXCEPT !.content_filter_enabled = form.content_filter,
                              !.ethics_check_enabled = form.ethics_check,
                              !.permission_required = form.permission_required]
        ELSE table[i]]

notSettingsVars ==
    <<cloneVars, cascadeVars, responseVars, session_user, user_settings, conversations,
      messages, chat_last, model_cache, assigned, integratorVars>>

FreeSlots == {i \in 1..MaxSettingsRequests : reqs[i].pc = "idle"}

\* register up to the commit of the user row
SetRegisterUser ==
    /\ nusers < MaxSettingsUsers
    /\ \E i \in FreeSlots :
          reqs' = [reqs EXCEPT ![i] = [route |-> "register", user |-> nusers + 1,
                                       pc |-> "insert", form |-> NoForm]]
    /\ nusers' = nusers + 1
    /\ UNCHANGED settings_table
    /\ UNCHANGED notSettingsVars

\* index, chat or settings by a logged-in user, up to the query for the row
SetQuery ==
    /\ \E i \in FreeSlots, u \in 1..nusers, route \in {"index", "chat", "settings"},
          form \in SettingsForms :
          /\ form # NoForm => route = "settings"
          /\ reqs' = [reqs EXCEPT ![i] =
                         [route |-> route, user |-> u,
                          pc |-> IF HasSettings(settings_table, u) THEN "finish" ELSE "insert",
                          form |-> form]]
    /\ UNCHANGED <<nusers, settings_table>>
    /\ UNCHANGED notSettingsVars

\* The insert and its commit; an IntegrityError leaves the handler.
SetInsert ==
    /\ \E i \in 1..MaxSettingsRequests :
          /\ reqs[i].pc = "insert"
          /\ LET done == InsertSettings(settings_table, reqs[i].user)
             IN  /\ settings_table' = done.table
                 /\ reqs' = [reqs EXCEPT ![i] =
                                [@ EXCEPT !.pc = IF done.raised THEN "raised" ELSE "finish"]]
    /\ UNCHANGED nusers
    /\ UNCHANGED notSettingsVars

\* The rest of the request: POST /settings stores the form; a request that
\* raised is answered 500.
SetFinish ==
    /\ \E i \in 1..MaxSettingsRequests :
          /\ reqs[i].pc \in {"finish", "raised"}
          /\ settings_table' = IF reqs[i].form = NoForm \/ reqs[i].pc = "raised"
                               THEN settings_table
                               ELSE UpdateFromForm(settings_table, reqs[i].user, reqs[i].form)
          /\ reqs' = [reqs EXCEPT ![i] = IdleRequest]
    /\ UNCHANGED nusers
    /\ UNCHANGED notSettingsVars

SettingsNext ==
    \/ SetRegisterUser
    \/ SetQuery
    \/ SetInsert
    \/ SetFinish

SettingsSpecInit ==
    /\ CloneInit /\ CascadeIdle /\ ResponseIdle /\ ChatIdle /\ ModelsIdle
    /\ NamesIdle /\ IntegratorIdle
    /\ reqs = [i \in 1..MaxSettingsRequests |-> IdleRequest]
    /\ settings_table = <<>>

SpecSettings == SettingsSpecInit /\ [][SettingsNext]_vars

RowsOf(table, u) == {i \in 1..Len(table) : table[i].user_id = u}

\* C21: under every interleaving of register, index, chat and settings
\* requests each user has at most one settings record; a request that
\* inserts for a user who has none adds one record, that user's, with
\* content_filter_enabled, ethics_check_enabled and permission_required true,
\* and no record is added otherwise.
C21_OneSettingsRecord ==
    [][/\ \A u \in 1..nusers' : Cardinality(RowsOf(settings_table', u)) <= 1
       /\ \A i \in 1..MaxSettingsRequests :
             (reqs[i].pc = "insert" /\ reqs'[i] # reqs[i]) =>
                IF HasSettings(settings_table, reqs[i].user)
                THEN settings_table' = settings_table
                ELSE settings_table' = Append(settings_table,
                        [user_id |-> reqs[i].user, content_filter_enabled |-> TRUE,
                         ethics_check_enabled |-> TRUE, permission_required |-> TRUE])
       /\ Len(settings_table') # Len(settings_table) =>
             \E i \in 1..MaxSettingsRequests : reqs[i].pc = "insert" /\ reqs'[i] # reqs[i]
    ]_vars

\* Two requests of user 1 both found no record; one has inserted it and the
\* other's insert was refused.
C21_Witness ==
    /\ nusers >= 1
    /\ Len(settings_table) = 1
    /\ settings_table[1] = NewSettings(1)
    /\ \E i, j \in 1..MaxSettingsRequests :
          /\ i # j
          /\ reqs[i].user = 1 /\ reqs[i].pc = "finish" /\ reqs[i].route = "chat"
          /\ reqs[j].user = 1 /\ reqs[j].pc = "raised"

(***************************************************************************)
(* Further claims about the chat and permission endpoints.                 *)
(***************************************************************************)
\* The settings row the request of user u reads; a missing row is created
\* with the defaults.
RowRead(u) == IF user_settings[u] = NoRow THEN DefaultUserSettings ELSE user_settings[u]

\* The positions of the messages a step appends.
Appended == (Len(messages) + 1)..Len(messages')

\* The request answered in this step carried, or regenerated from, a prompt
\* with a permission-trigger keyword while its user's permission_required
\* setting was true.
TriggerWhileRequired ==
    /\ chat_last' # chat_last
    /\ session_user # 0
    /\ RowRead(session_user).permission_required
    /\ "message" \in DOMAIN chat_last'
    /\ "engine" \in DOMAIN chat_last'
    /\ ExpectedPermission(chat_last'.message).requires_permission

\* C23: while the user's permission_required setting is true, an AI message
\* holding the response generated from a prompt with a trigger keyword is
\* appended only by a grant for the conversation that already holds that
\* prompt; a chat request with such a prompt appends the user's message alone.
C23_TriggerNeedsGrant ==
    [][TriggerWhileRequired =>
          /\ \A k \in Appended :
                (~messages'[k].is_user) =>
                   /\ chat_last'.op = "permission"
                   /\ chat_last'.granted
                   /\ messages'[k].conversation_id = chat_last'.named
                   /\ \E j \in 1..Len(messages) :
                         messages[j] = NewMessage(chat_last'.named, TRUE, chat_last'.message)
          /\ chat_last'.op = "chat" =>
                /\ Len(messages') = Len(messages) + 1
                /\ messages'[Len(messages')].is_user
    ]_vars

\* A grant has appended the response to "Can you hack into a server?" for a
\* user whose permission_required setting is true.
C23_Witness ==
    /\ chat_last.op = "permission"
    /\ chat_last.http = 200
    /\ chat_last.granted
    /\ "engine" \in DOMAIN chat_last
    /\ chat_last.message = "Can you hack into a server?"
    /\ chat_last.engine.result.status = "success"
    /\ session_user = chat_last.user
    /\ user_settings[session_user].permission_required
    /\ Len(messages) = chat_last.before + 1
    /\ messages[Len(messages)] = NewMessage(chat_last.named, FALSE, chat_last.engine.result.text)


\* A permission request is pending for conversation id: its last message is a
\* user message with a trigger keyword (chat asked and stored no answer).
PendingPermission(id) ==
    /\ MessagesOf(id) # {}
    /\ LET last == messages[CHOOSE i \in MessagesOf(id) : \A j \in MessagesOf(id) : j <= i]
       IN  last.is_user /\ ExpectedPermission(last.content).requires_permission

\* C24: a grant or a denial for a conversation with no pending permission
\* request (none was raised, or it has been resolved already) appends no
\* message.
C24_ResolvedAtMostOnce ==
    [][(/\ chat_last' # chat_last
        /\ chat_last'.op = "permission"
        /\ ~PendingPermission(chat_last'.named)) => messages' = messages]_vars


(***************************************************************************)
(* Several users on the chat and permission endpoints.                     *)
(***************************************************************************)
\* register while fewer than MaxSharingUsers accounts exist
RegisterSeveral ==
    /\ nusers < MaxSharingUsers
    /\ nusers' = nusers + 1
    /\ user_settings' = Append(user_settings, DefaultUserSettings)
    /\ session_user' = nusers + 1
    /\ chat_last' = NoRequest
    /\ UNCHANGED <<conversations, messages>>
    /\ UNCHANGED notChatVars

SharingNext ==
    \/ RegisterSeveral
    \/ Login
    \/ DoChat
    \/ DoPermission

SpecSharing == ChatSpecInit /\ [][SharingNext]_vars

\* Conversation id exists and belongs to user u.
OwnedBy(table, id, u) == id \in 1..Len(table) /\ table[id].user_id = u

\* C25: a request appends messages only to an existing conversation of the
\* user who sends it, and generates a response only from the messages of
\* such a conversation.
C25_OnlyOwnerAppends ==
    [][/\ \A k \in Appended :
             OwnedBy(conversations', messages'[k].conversation_id, session_user)
       /\ (chat_last' # chat_last /\ "engine" \in DOMAIN chat_last') =>
             OwnedBy(conversations', IF chat_last'.named = NoId
                                     THEN Len(conversations')
                                     ELSE chat_last'.named, session_user)
    ]_vars


(***************************************************************************)
(* Concurrent clone requests.  Each request runs in a worker of its own    *)
(* with a database session of its own (Flask-SQLAlchemy's scoped session): *)
(* what it writes stays in its transaction until its commit.  The model    *)
(* lets a statement go on while another transaction has written; a         *)
(* database that makes it wait gives a subset of these interleavings, and  *)
(* one that gives up waiting raises (RaceLocked).                          *)
(***************************************************************************)
IdleClone == [route |-> "none", pc |-> "idle", name |-> "", row |-> 0, raced |-> FALSE]

notRaceVars == <<sess, cm_last, cascadeVars, responseVars, chatVars, model_cache, assigned,
                 settings_table, integratorVars>>

\* The ids of the active rows.
ActiveRows(rows) == {k \in 1..Len(rows) : rows[k].is_active}

\* The transactions that hold the bulk update and have not set their target.
Deactivating == {j \in DOMAIN reqs : reqs[j].route = "activate" /\ reqs[j].pc = "deactivated"}

\* The create requests that have not committed their row.
Creating == {j \in DOMAIN reqs : reqs[j].route = "create" /\ reqs[j].pc \in {"numbered", "written"}}

\* db.session.add(new_clone); commit(): the table takes the row; nothing in
\* the description of a clone record makes its name unique.
InsertClone(rows, row) == Append(rows, row)

\* A commit of activate_clone that carries the update of the target row only.
CommitActivationTargetOnly(rows, k) == [rows EXCEPT ![k].is_active = TRUE]

\* The commit of activate_clone: the transaction's bulk update and the update
\* of the target row reach the table together.
CommitActivation(rows, k) == [Deactivated(rows) EXCEPT ![k].is_active = TRUE]

\* A request is taken by the first worker that is free.
FreeWorker(i) == reqs[i].pc = "idle" /\ \A j \in 1..(i - 1) : reqs[j].pc # "idle"

\* create_clone up to the clone name: the highest-id row is read
RaceNumber(i) ==
    /\ FreeWorker(i)
    /\ Len(clones) + Cardinality(Creating) < MaxCloneNum
    /\ reqs' = [reqs EXCEPT ![i] = [route |-> "create", pc |-> "numbered",
                                    name |-> "THOR" \o NumToStr(GetNextCloneNumber(clones)),
                                    row |-> 0, raced |-> FALSE]]
    /\ UNCHANGED <<clones, files>>
    /\ UNCHANGED notRaceVars

\* the model file is written
RaceWriteFile(i) ==
    /\ reqs[i].route = "create" /\ reqs[i].pc = "numbered"
    /\ files' = files \cup {reqs[i].name}
    /\ reqs' = [reqs EXCEPT ![i].pc = "written"]
    /\ UNCHANGED clones
    /\ UNCHANGED notRaceVars

\* the row is added and committed
RaceInsert(i) ==
    /\ reqs[i].route = "create" /\ reqs[i].pc = "written"
    /\ \E d \in Descriptions :
          clones' = InsertClone(clones, [clone_name |-> reqs[i].name, base_version |-> "1.0",
                                         description |-> d, capabilities |-> BaseCaps,
                                         is_active |-> FALSE])
    /\ reqs' = [reqs EXCEPT ![i].pc = "committed", ![i].row = Len(clones) + 1]
    /\ UNCHANGED files
    /\ UNCHANGED notRaceVars

\* activate_clone for an existing name: the bulk update, in the transaction
RaceDeactivate(i) ==
    /\ FreeWorker(i)
    /\ \E k \in 1..Len(clones) :
          reqs' = [j \in DOMAIN reqs |->
                      IF j = i
                      THEN [route |-> "activate", pc |-> "deactivated",
                            name |-> clones[k].clone_name, row |-> 0,
                            raced |-> Deactivating # {}]
                      ELSE IF j \in Deactivating THEN [reqs[j] EXCEPT !.raced = TRUE]
                      ELSE reqs[j]]
    /\ UNCHANGED <<clones, files>>
    /\ UNCHANGED notRaceVars

\* the bulk update raises while another transaction has written (the database
\* is locked): rollback, the request answers False
RaceLocked(i) ==
    /\ FreeWorker(i)
    /\ \E j \in DOMAIN reqs : reqs[j].route = "activate" /\ reqs[j].pc \in {"deactivated", "targeted"}
    /\ \E k \in 1..Len(clones) :
          reqs' = [reqs EXCEPT ![i] = [route |-> "activate", pc |-> "failed",
                                       name |-> clones[k].clone_name, row |-> 0,
                                       raced |-> FALSE]]
    /\ UNCHANGED <<clones, files>>
    /\ UNCHANGED notRaceVars

\* the target is read and its is_active set, in the transaction
RaceSetTarget(i) ==
    /\ reqs[i].route = "activate" /\ reqs[i].pc = "deactivated"
    /\ reqs' = [reqs EXCEPT ![i].pc = "targeted", ![i].row = FindClone(clones, reqs[i].name)]
    /\ UNCHANGED <<clones, files>>
    /\ UNCHANGED notRaceVars

\* db.session.commit()
RaceCommit(i) ==
    /\ reqs[i].route = "activate" /\ reqs[i].pc = "targeted"
    /\ clones' = CommitActivation(clones, reqs[i].row)
    /\ reqs' = [reqs EXCEPT ![i].pc = "committed"]
    /\ UNCHANGED files
    /\ UNCHANGED notRaceVars

\* the request is answered and its session removed
RaceReturn(i) ==
    /\ reqs[i].pc \in {"committed", "failed"}
    /\ reqs' = [reqs EXCEPT ![i] = IdleClone]
    /\ UNCHANGED <<clones, files>>
    /\ UNCHANGED notRaceVars

RaceNext ==
    \E i \in 1..MaxRaceRequests :
       \/ RaceNumber(i)
       \/ RaceWriteFile(i)
       \/ RaceInsert(i)
       \/ RaceDeactivate(i)
       \/ RaceLocked(i)
       \/ RaceSetTarget(i)
       \/ RaceCommit(i)
       \/ RaceReturn(i)

RaceSpecInit ==
    /\ reqs = [i \in 1..MaxRaceRequests |-> IdleClone]
    /\ settings_table = <<>>
    /\ CloneInit /\ CascadeIdle /\ ResponseIdle /\ ChatIdle /\ ModelsIdle
    /\ NamesIdle /\ IntegratorIdle

SpecRace == RaceSpecInit /\ [][RaceNext]_vars

\* Two activate requests for different clones have both committed, each
\* having run its deactivate-all before the other set its target.
RacedPair(i, j) ==
    /\ i # j
    /\ reqs[i].route = "activate" /\ reqs[i].pc = "committed" /\ reqs[i].raced
    /\ reqs[j].route = "activate" /\ reqs[j].pc = "committed" /\ reqs[j].raced
    /\ reqs[i].row # reqs[j].row

\* C22 as stated: after the interleaving in which both concurrent activate
\* requests deactivate all clones before either sets its target, two clones
\* are active.
C22_RaceLeavesTwoActive ==
    \A i, j \in DOMAIN reqs : RacedPair(i, j) => Cardinality(ActiveRows(clones)) = 2

\* C22: under every interleaving of the steps of concurrent activate (and
\* create) requests at most one clone is active, and exactly one once an
\* activate request has committed.
C22_RaceKeepsOneActive ==
    /\ Cardinality(ActiveRows(clones)) <= 1
    /\ (\E i \in DOMAIN reqs : reqs[i].route = "activate" /\ reqs[i].pc = "committed") =>
          Cardinality(ActiveRows(clones)) = 1

C22_Witness ==
    \E i, j \in DOMAIN reqs :
       /\ RacedPair(i, j)
       /\ Cardinality(ActiveRows(clones)) = 1

\* C27: no two clone records have the same name, whatever the interleaving
\* of the steps of concurrent create requests.
C27_NamesDistinct ==
    \A k, l \in 1..Len(clones) : clones[k].clone_name = clones[l].clone_name => k = l


(***************************************************************************)
(* The model integrator.  An info dict is                                  *)
(*   [name, version, description, capabilities, cloned_from]               *)
(* where capabilities is a reference to a list object of lists (dict.copy  *)
(* copies the reference, not the list) and cloned_from is "" while the     *)
(* dict has no such key.                                                   *)
(***************************************************************************)
NoPath == ""

OriginalModels == {"simple_ai", "advanced_ai", "m2", "nope"}
NewModelNames == {"m2", "m3"}

\* The modifications of a request: none, a key the info does not have, a
\* string for a string, a list for a list.
NoModifications == [none |-> TRUE]
Modifications ==
    {NoModifications,
     [extra |-> "on"],
     [description |-> "d2"],
     [capabilities |-> <<"x">>]}

notIntegratorVars == <<cloneVars, cascadeVars, responseVars, chatVars, model_cache, assigned,
                       reqs, settings_table>>

\* ModelIntegrator.__init__
IntegratorInit ==
    /\ available_models =
          [m \in {"simple_ai", "advanced_ai"} |->
              IF m = "simple_ai"
              THEN [name |-> "Simple AI", version |-> "1.0",
                    description |-> "Basic rule-based AI model",
                    capabilities |-> 1, cloned_from |-> ""]
              ELSE [name |-> "Advanced AI", version |-> "1.0",
                    description |-> "More sophisticated AI with extended capabilities",
                    capabilities |-> 2, cloned_from |-> ""]]
    /\ lists = <<(<<"conversation", "text generation", "intent recognition">>),
                 (<<"conversation", "text generation", "intent recognition",
                    "code generation">>)>>
    /\ mi_last = [op |-> "none"]

\* What get_model_info(m) shows: the dict with its list read out.
ModelInfo(models, heap, m) ==
    [models[m] EXCEPT !.capabilities = heap[models[m].capabilities]]

\* get_model_path
GetModelPath(model_name) == "model_info/" \o model_name \o ".json"

\* create_model_clone
CreateModelClone(original_model, new_model_name, modifications) ==
    IF original_model \notin DOMAIN available_models
    THEN /\ mi_last' = [op |-> "create_model_clone", original |-> original_model,
                        new |-> new_model_name, modifications |-> modifications,
                        path |-> NoPath]
         /\ UNCHANGED <<available_models, lists>>
    ELSE LET copy == available_models[original_model]
             described == IF "description" \in DOMAIN modifications
                          THEN [copy EXCEPT !.description = modifications.description]
                          ELSE copy
             new_model_info == [described EXCEPT !.name = @ \o " (Clone)",
                                                 !.version = @ \o "-clone",
                                                 !.cloned_from = original_model]
         IN  /\ lists' = IF "capabilities" \in DOMAIN modifications
                         THEN [lists EXCEPT ![copy.capabilities] = @ \o modifications.capabilities]
                         ELSE lists
             /\ available_models' =
                   [m \in (DOMAIN available_models) \cup {new_model_name} |->
                       IF m = new_model_name THEN new_model_info ELSE available_models[m]]
             /\ mi_last' = [op |-> "create_model_clone", original |-> original_model,
                            new |-> new_model_name, modifications |-> modifications,
                            path |-> GetModelPath(new_model_name)]

DoCreateModelClone ==
    /\ \E original_model \in OriginalModels, new_model_name \in NewModelNames,
          modifications \in Modifications :
          /\ original_model \in DOMAIN available_models =>
                /\ Len(available_models[original_model].version) <= MaxVersionLen
                /\ Len(lists[available_models[original_model].capabilities]) < MaxCapabilities
          /\ CreateModelClone(original_model, new_model_name, modifications)
    /\ UNCHANGED notIntegratorVars

IntegratorNext == DoCreateModelClone

IntegratorSpecInit ==
    /\ IntegratorInit
    /\ CloneInit /\ CascadeIdle /\ ResponseIdle /\ ChatIdle /\ ModelsIdle
    /\ NamesIdle /\ RequestsIdle

SpecIntegrator == IntegratorSpecInit /\ [][IntegratorNext]_vars

\* C30: a create_model_clone leaves the information of every model other
\* than the new one as it was, the lists included; for an unknown original
\* it returns no path and the models stay the same.
C30_OtherModelsUnchanged ==
    [][mi_last'.op = "create_model_clone" =>
          /\ \A m \in DOMAIN available_models :
                m # mi_last'.new =>
                   /\ m \in DOMAIN available_models'
                   /\ ModelInfo(available_models', lists', m)
                         = ModelInfo(available_models, lists, m)
          /\ mi_last'.original \notin DOMAIN available_models =>
                /\ mi_last'.path = NoPath
                /\ DOMAIN available_models' = DOMAIN available_models
    ]_vars

====
